---- MODULE Spec2Model ----
(***************************************************************************)
(* Model of the MCP repository analysers of mcp-hq:                        *)
(*   src/nu/analyze_mcp_repository.py      (class MCPRepositoryAnalyzer)   *)
(*   src/scripts/analyze_mcp_server_repo.py (class MCPServerAnalyzer)      *)
(* and of its catalog tools:                                               *)
(*   src/catalog/validate-catalog.py       (class CatalogValidator)        *)
(*   src/catalog/generate-coverage.py      (class CoverageReporter)        *)
(*                                                                         *)
(* Text is modelled as a sequence of atoms.  An atom is a piece of text    *)
(* that the regular expressions and the find/rfind scans of the code can   *)
(* only take or leave as a whole ("github.com", "/", ".git", "tree", ...). *)
(* Python's None is the empty sequence where a non-empty text is the only  *)
(* alternative (the groups of the URL patterns are never empty).           *)
(***************************************************************************)
EXTENDS Integers, Sequences, FiniteSets, TLC

VARIABLES
    pc,               \* position of the run
    url,              \* args.github_url, a sequence of atoms
    server_name,      \* args.server_name
    argAgent,         \* args.agent ("" when --agent is not given)
    argOutput,        \* args.output ("" when --output is not given)
    available_agents, \* self.available_agents
    selected_agent,   \* self.selected_agent
    temp_dir,         \* self.temp_dir: "none", "exists", "removed"
    owner,            \* owner of the resolved reference (<<>> is None)
    repo,             \* project of the resolved reference (<<>> is None)
    repo_summary,     \* result of _get_repository_summary
    repo_tree,        \* result of _get_repository_tree
    key_files,        \* result of _identify_key_files
    file_contents,    \* result of _extract_file_contents
    config,           \* <<>> until a record is produced, then <<record>>
    config_path,      \* which path produced config: "", "enriched", "fallback"
    result,           \* outcome of the external call of the latest step
    calls,            \* external calls made so far, oldest first
    raised,           \* exception propagating out of the run ("" when none)
    exit_code,        \* process exit code, -1 while the process runs
    files,            \* output files: path |-> <<>> (absent) or <<record>>
    files0,           \* the output files as they were when the process started
    writers,          \* processes writing one output file at once: their state
    disk,             \* text of the output file those processes write
    validator,        \* the CatalogValidator object (<<>> when there is none)
    reporter,         \* the CoverageReporter object (<<>> when there is none)
    coverage          \* `coverage` of CoverageReporter.generate (<<>> before)

vars == <<pc, url, server_name, argAgent, argOutput, available_agents,
          selected_agent, temp_dir, owner, repo, repo_summary, repo_tree,
          key_files, file_contents, config, config_path, result, calls,
          raised, exit_code, files, files0, writers, disk, validator,
          reporter, coverage>>

\* the variables of the processes that write one output file at once
concurrent == <<writers, disk>>

\* no such processes
NoWriters == writers = <<>> /\ disk = <<>>

\* the variables of the catalog tools
catalog_tools == <<validator, reporter, coverage>>

\* no catalog tool is running
NoCatalogTools == validator = <<>> /\ reporter = <<>> /\ coverage = <<>>

----------------------------------------------------------------------------
(* Bounds of the model *)

\* longest list of segments that follows /tree/ or /blob/ in an input URL
MaxTail == 3
\* most names (owner, project) that follow the host in an input URL
MaxNames == 2

----------------------------------------------------------------------------
(* Sequences *)

Last(s) == s[Len(s)]

Front(s) == SubSeq(s, 1, Len(s) - 1)

SeqsUpTo(S, n) == UNION {[1..k -> S] : k \in 0..n}

Range(s) == {s[i] : i \in DOMAIN s}

----------------------------------------------------------------------------
(* URL resolution: _parse_github_url, identical in both analysers *)

\* atoms of URL text that contain the character '/'
SlashAtoms == {"/", "https://"}

NoSlash(s, i, j) == \A k \in i..j : s[k] \notin SlashAtoms

\* [^/]+ followed by a literal '/': the run of slash-free atoms that starts at
\* i and is followed by the atom "/"; 0 when there is none
SegmentEnd(s, i) ==
    LET ends == {j \in i..(Len(s) - 1) : NoSlash(s, i, j) /\ s[j + 1] = "/"}
    IN  IF ends = {} THEN 0 ELSE CHOOSE j \in ends : \A k \in ends : j <= k

\* r'github\.com/([^/]+)/([^/]+?)(?:\.git)?/?$' matched at position i:
\* <<owner, repo>>, or <<>> when the pattern does not match there
MatchPlainAt(s, i) ==
    IF ~(i + 1 <= Len(s) /\ s[i] = "github.com" /\ s[i + 1] = "/") THEN <<>>
    ELSE
    LET j == SegmentEnd(s, i + 2) IN
    IF j = 0 THEN <<>>
    ELSE
    LET rest == SubSeq(s, j + 2, Len(s))
        body == IF rest # <<>> /\ Last(rest) = "/" THEN Front(rest) ELSE rest
    IN  IF body = <<>> \/ ~NoSlash(body, 1, Len(body)) THEN <<>>
        ELSE IF Len(body) > 1 /\ Last(body) = ".git"
             THEN <<SubSeq(s, i + 2, j), Front(body)>>
             ELSE <<SubSeq(s, i + 2, j), body>>

\* r'github\.com/([^/]+)/([^/]+)/tree/' (kind = "tree") and
\* r'github\.com/([^/]+)/([^/]+)/blob/' (kind = "blob") matched at position i
MatchKindAt(s, i, kind) ==
    IF ~(i + 1 <= Len(s) /\ s[i] = "github.com" /\ s[i + 1] = "/") THEN <<>>
    ELSE
    LET j == SegmentEnd(s, i + 2) IN
    IF j = 0 THEN <<>>
    ELSE
    LET k == SegmentEnd(s, j + 2) IN
    IF k = 0 THEN <<>>
    ELSE IF k + 3 <= Len(s) /\ s[k + 2] = kind /\ s[k + 3] = "/"
         THEN <<SubSeq(s, i + 2, j), SubSeq(s, j + 2, k)>>
         ELSE <<>>

\* the three patterns, in the order of the list `patterns`
Patterns == <<"plain", "tree", "blob">>

MatchAt(s, i, p) ==
    IF p = "plain" THEN MatchPlainAt(s, i) ELSE MatchKindAt(s, i, p)

\* re.search(pattern, url): the leftmost position where the pattern matches
ReSearch(p, s) ==
    LET hits == {i \in 1..Len(s) : MatchAt(s, i, p) # <<>>}
    IN  IF hits = {} THEN <<>>
        ELSE MatchAt(s, CHOOSE i \in hits : \A k \in hits : i <= k, p)

\* index in Patterns of the first pattern that matches, 0 when none does
FirstPattern(s) ==
    LET hits == {n \in 1..Len(Patterns) : ReSearch(Patterns[n], s) # <<>>}
    IN  IF hits = {} THEN 0 ELSE CHOOSE n \in hits : \A k \in hits : n <= k

\* _parse_github_url: <<owner, repo>>, (None, None) is <<<<>>, <<>>>>
parse_github_url(s) ==
    IF FirstPattern(s) = 0 THEN << <<>>, <<>> >>
    ELSE ReSearch(Patterns[FirstPattern(s)], s)

----------------------------------------------------------------------------
(* Input URLs: scheme, host, up to MaxNames names, and a suffix *)

WidgetUrl == <<"https://", "github.com", "/", "acme", "/", "widget-mcp">>

Schemes == {<<>>, <<"https://">>}

Hosts == {<<"github.com">>, <<"gitlab.com">>, <<"evil", "github.com">>}

Names == {"acme", "widget-mcp"}

\* segments that may follow /tree/ or /blob/ (branch names, directory names)
TailSegments == {"main", "github.com", "acme"}

RECURSIVE JoinSlash(_)
\* the segments of ss, each preceded by "/"
JoinSlash(ss) ==
    IF ss = <<>> THEN <<>> ELSE <<"/", ss[1]>> \o JoinSlash(Tail(ss))

\* the segments of ss separated by "/"
TailText(ss) == IF ss = <<>> THEN <<>> ELSE Tail(JoinSlash(ss))

Suffixes(maxTail) ==
    {<<>>, <<"/">>, <<".git">>, <<".git", "/">>}
    \cup {<<"/", k, "/">> \o TailText(t) :
              k \in {"tree", "blob"}, t \in SeqsUpTo(TailSegments, maxTail)}

Urls(schemes, maxTail) ==
    {sc \o h \o JoinSlash(ns) \o sf :
        sc \in schemes, h \in Hosts, ns \in SeqsUpTo(Names, MaxNames),
        sf \in Suffixes(maxTail)}

----------------------------------------------------------------------------
(* Command line and environment of one run *)

ServerNames == {"widget", "other"}

\* args.agent: "" is --agent not given
AgentArgs == {"", "gemini", "codex", "claude"}

\* args.output: "" is --output not given
OutputArgs == {"", "out.json"}

\* self.active_dir / f"{server_name}.json"
DefaultPath(name) == <<"mcp-servers/active/", name, ".json">>

OutputPaths == {DefaultPath(n) : n \in ServerNames} \cup {<<"out.json">>}

\* a record an earlier run left in an output file
OldRecord == [metadata |-> [server_id |-> "widget", generated_by |-> "earlier run"]]

\* the output files before the run: none exists, or each holds an old record
InitialFiles ==
    {[p \in OutputPaths |-> <<>>], [p \in OutputPaths |-> <<OldRecord>>]}

\* the path main writes to: args.output if given, else save_config's path
OutputPath(out, name) == IF out # "" THEN <<out>> ELSE DefaultPath(name)

----------------------------------------------------------------------------
(* Backend registry: _detect_agents, _select_best_agent *)

Agents == {"gemini", "codex", "claude"}

\* outcome of one `which <name>` probe: exit status 0, another exit status,
\* or subprocess.run raising (`which` itself missing)
ProbeOutcomes == {"zero", "nonzero", "raises"}

\* _detect_agents counting a probe as failed only on a non-zero exit status
detect_agents_nonzero_only(probeGemini, probeCodex) ==
    [a \in Agents |->
        CASE a = "gemini" -> probeGemini # "nonzero"
          [] a = "codex"  -> probeCodex # "nonzero"
          [] OTHER        -> TRUE]

detect_agents(probeGemini, probeCodex) ==
    [a \in Agents |->
        CASE a = "gemini" -> probeGemini = "zero"
          [] a = "codex"  -> probeCodex = "zero"
          [] OTHER        -> TRUE]

\* _select_best_agent asking for codex first
select_best_agent_codex_first(available) ==
    IF available["codex"] THEN "codex"
    ELSE IF available["gemini"] THEN "gemini"
    ELSE "claude"

select_best_agent(available) ==
    IF available["gemini"] THEN "gemini"
    ELSE IF available["codex"] THEN "codex"
    ELSE "claude"

\* main taking args.agent whether or not that backend is available
override_agent_forced(arg, available, selected) ==
    IF arg # "" THEN arg ELSE selected

\* main: `if args.agent and analyzer.available_agents.get(args.agent, False)`
override_agent(arg, available, selected) ==
    IF arg # "" /\ available[arg] THEN arg ELSE selected

----------------------------------------------------------------------------
(* The values a run starts from *)

NoAgents == [a \in Agents |-> FALSE]

Unstarted ==
    /\ pc = "start"
    /\ available_agents = NoAgents
    /\ selected_agent = ""
    /\ temp_dir = "none"
    /\ owner = <<>>
    /\ repo = <<>>
    /\ repo_summary = <<>>
    /\ repo_tree = <<>>
    /\ key_files = <<>>
    /\ file_contents = <<>>
    /\ config = <<>>
    /\ config_path = ""
    /\ result = [call |-> "", kind |-> "none"]
    /\ calls = <<>>
    /\ raised = ""
    /\ exit_code = -1
    /\ files0 \in InitialFiles
    /\ NoWriters
    /\ NoCatalogTools
    /\ files = files0

----------------------------------------------------------------------------
(* main of src/nu/analyze_mcp_repository.py, up to the validity check *)

\* the URLs of the runs of main: with a scheme, nothing after /tree/ or /blob/
RunUrls == Urls({<<"https://">>}, 0)

\* the URLs _parse_github_url is applied to on its own
AllUrls == Urls(Schemes, MaxTail)

Init ==
    /\ url \in RunUrls
    /\ server_name \in ServerNames
    /\ argAgent \in AgentArgs
    /\ argOutput \in OutputArgs
    /\ Unstarted

\* the outcomes of the two probes of _detect_agents
Probed(pg, pcx) == [call |-> "which", kind |-> "probed", gemini |-> pg, codex |-> pcx]

\* MCPRepositoryAnalyzer.__init__: scratch directory, detection, selection
Construct ==
    /\ pc = "start"
    /\ \E pg \in ProbeOutcomes, pcx \in ProbeOutcomes :
          /\ available_agents' = detect_agents(pg, pcx)
          /\ selected_agent' = select_best_agent(detect_agents(pg, pcx))
          /\ result' = Probed(pg, pcx)
    /\ calls' = calls \o <<"which_gemini", "which_codex">>
    /\ temp_dir' = "exists"
    /\ pc' = "override"
    /\ UNCHANGED <<concurrent, catalog_tools, files0, url, server_name, argAgent, argOutput, owner, repo,
                   repo_summary, repo_tree, key_files, file_contents, config,
                   config_path, raised, exit_code, files>>

\* main, lines 476-478
Override ==
    /\ pc = "override"
    /\ selected_agent' = override_agent(argAgent, available_agents, selected_agent)
    /\ result' = [call |-> "", kind |-> "none"]
    /\ pc' = "resolve"
    /\ UNCHANGED <<concurrent, catalog_tools, files0, url, server_name, argAgent, argOutput, available_agents,
                   temp_dir, owner, repo, repo_summary, repo_tree, key_files,
                   file_contents, config, config_path, calls, raised,
                   exit_code, files>>

\* analyze_repository, line 70: `if not owner or repo`
InvalidReference(o, r) == o = <<>> \/ r # <<>>

\* analyze_repository, lines 67-71: resolve the URL, raise ValueError on an
\* invalid reference, else go on to the ingestion stages
Resolve ==
    /\ pc = "resolve"
    /\ owner' = parse_github_url(url)[1]
    /\ repo' = parse_github_url(url)[2]
    /\ IF InvalidReference(parse_github_url(url)[1], parse_github_url(url)[2])
       THEN raised' = "ValueError" /\ pc' = "finally"
       ELSE raised' = raised /\ pc' = "summary"
    /\ UNCHANGED <<concurrent, catalog_tools, files0, url, server_name, argAgent, argOutput, available_agents,
                   selected_agent, temp_dir, repo_summary, repo_tree,
                   key_files, file_contents, config, config_path, result,
                   calls, exit_code, files>>

\* analyze_repository without the finally clause of lines 117-119
CleanupKeepingScratch ==
    /\ pc = "finally"
    /\ owner' = <<>>
    /\ repo' = <<>>
    /\ repo_summary' = <<>>
    /\ repo_tree' = <<>>
    /\ key_files' = <<>>
    /\ file_contents' = <<>>
    /\ result' = [call |-> "", kind |-> "none"]
    /\ pc' = IF raised # "" THEN "main_except" ELSE "write"
    /\ UNCHANGED <<concurrent, catalog_tools, files0, url, server_name, argAgent, argOutput, available_agents,
                   selected_agent, temp_dir, config, config_path, calls, raised,
                   exit_code, files>>

\* analyze_repository, lines 114-119: the except clause re-raises, the finally
\* clause removes the scratch directory; the frame of analyze_repository and
\* its local variables end here
Cleanup ==
    /\ pc = "finally"
    /\ temp_dir' = "removed"
    /\ owner' = <<>>
    /\ repo' = <<>>
    /\ repo_summary' = <<>>
    /\ repo_tree' = <<>>
    /\ key_files' = <<>>
    /\ file_contents' = <<>>
    /\ result' = [call |-> "", kind |-> "none"]
    /\ pc' = IF raised # "" THEN "main_except" ELSE "write"
    /\ UNCHANGED <<concurrent, catalog_tools, files0, url, server_name, argAgent, argOutput, available_agents,
                   selected_agent, config, config_path, calls, raised,
                   exit_code, files>>

\* main's except clause also removing the output file
ExitFailureRemovingOutput ==
    /\ pc = "main_except"
    /\ exit_code' = 1
    /\ files' = [files EXCEPT ![OutputPath(argOutput, server_name)] = <<>>]
    /\ pc' = "done"
    /\ UNCHANGED <<concurrent, catalog_tools, files0, url, server_name, argAgent, argOutput, available_agents,
                   selected_agent, temp_dir, owner, repo, repo_summary,
                   repo_tree, key_files, file_contents, config, config_path,
                   result, calls, raised>>

\* main, lines 502-504: `except Exception` prints and calls sys.exit(1)
ExitFailure ==
    /\ pc = "main_except"
    /\ exit_code' = 1
    /\ pc' = "done"
    /\ UNCHANGED <<concurrent, catalog_tools, files0, url, server_name, argAgent, argOutput, available_agents,
                   selected_agent, temp_dir, owner, repo, repo_summary,
                   repo_tree, key_files, file_contents, config, config_path,
                   result, calls, raised, files>>

\* A run of main.  Line 70 raises for every reference the resolver returns
\* (repo is then non-empty) and for None, so no run goes past Resolve.
Next == Construct \/ Override \/ Resolve \/ Cleanup \/ ExitFailure

Spec == Init /\ [][Next]_vars

----------------------------------------------------------------------------
(* Output of an external call and the recovery of a JSON object from it *)

\* longest output text of an external call, in atoms
MaxRespLen == 3

\* "{" and "}" are the brace characters, "x" is any text without braces
TextAtoms == {"{", "}", "x"}

Texts == SeqsUpTo(TextAtoms, MaxRespLen)

\* str.find: 0-based index of the first a in s, -1 when there is none
Find(s, a) ==
    LET hits == {i \in 1..Len(s) : s[i] = a}
    IN  IF hits = {} THEN -1
        ELSE (CHOOSE i \in hits : \A k \in hits : i <= k) - 1

\* str.find where the code calls str.rfind: the first a, not the last
FirstNotLast(s, a) == Find(s, a)

\* str.rfind: 0-based index of the last a in s, -1 when there is none
RFind(s, a) ==
    LET hits == {i \in 1..Len(s) : s[i] = a}
    IN  IF hits = {} THEN -1
        ELSE (CHOOSE i \in hits : \A k \in hits : i >= k) - 1

\* start_idx = response.find('{')
StartIdx(response) == Find(response, "{")

\* end_idx = response.rfind('}') + 1
EndIdx(response) == RFind(response, "}") + 1

\* `if start_idx >= 0 and end_idx > start_idx`
HasJson(response) ==
    StartIdx(response) >= 0 /\ EndIdx(response) > StartIdx(response)

\* json_str = response[start_idx:end_idx]
JsonStr(response) == SubSeq(response, StartIdx(response) + 1, EndIdx(response))

\* number of "{" minus number of "}" in the first n atoms of s
RECURSIVE Depth(_, _)
Depth(s, n) ==
    IF n = 0 THEN 0
    ELSE Depth(s, n - 1) + (IF s[n] = "{" THEN 1 ELSE IF s[n] = "}" THEN -1 ELSE 0)

\* s is one brace pair around braces that nest, every inner "{" after some
\* text (its key) and the object not empty: the texts that are a JSON object
\* when their brace-free parts spell members
ObjectShaped(s) ==
    /\ Len(s) >= 3
    /\ s[1] = "{"
    /\ Last(s) = "}"
    /\ Depth(s, Len(s)) = 0
    /\ \A n \in 1..(Len(s) - 1) : Depth(s, n) >= 1
    /\ \A n \in 2..Len(s) : s[n] = "{" => s[n - 1] = "x"
    /\ \E n \in 1..Len(s) : s[n] = "x"

\* the JSON object with no members
EmptyObject == <<>>

\* json.loads(json_str): ok is FALSE for JSONDecodeError.  Whether text that
\* is object-shaped parses, and to which object, depends on what its
\* brace-free parts spell: members_ok and payload of the call's outcome.
json_loads(s, members_ok, payload) ==
    IF s = <<"{", "}">> THEN [ok |-> TRUE, value |-> EmptyObject]
    ELSE IF ObjectShaped(s) /\ members_ok THEN [ok |-> TRUE, value |-> payload]
    ELSE [ok |-> FALSE, value |-> EmptyObject]

\* Outcomes of subprocess.run(cmd, capture_output=True, text=True, timeout=..):
\*   exit0    the process ended with return code 0 and wrote stdout
\*   nonzero  the process ended with another return code
\*   timeout  subprocess.TimeoutExpired
\*   raises   any other exception of subprocess.run (FileNotFoundError when
\*            the executable is missing, PermissionError, UnicodeDecodeError)
FailureKinds == {"nonzero", "timeout", "raises"}

\* the output texts whose brace-delimited part is object-shaped
ObjectTexts == {u \in Texts : HasJson(u) /\ ObjectShaped(JsonStr(u))}

Outcomes(call, payloads) ==
    {[call |-> call, kind |-> k, stdout |-> <<>>, members_ok |-> FALSE,
      payload |-> EmptyObject] : k \in FailureKinds}
    \cup {[call |-> call, kind |-> "exit0", stdout |-> t, members_ok |-> FALSE,
           payload |-> EmptyObject] : t \in Texts}
    \cup {[call |-> call, kind |-> "exit0", stdout |-> t, members_ok |-> TRUE,
           payload |-> p] :
              t \in ObjectTexts, p \in payloads}

\* the step made no external call
NoCall == [call |-> "", kind |-> "none"]

\* what a method hands back: a value, or an exception that propagates
Return(v) == [raises |-> "", value |-> v]

Raise(e) == [raises |-> e, value |-> EmptyObject]

----------------------------------------------------------------------------
(* Repository paths, as sequences of atoms *)

PkgJsonInX == <<"x/", "package.json">>
Readme     == <<"README.md">>
ToolA      == <<"src/", "tools/", "a.ts">>
License    == <<"LICENSE">>
Notes      == <<"notes.txt">>

\* a copy kept beside src/index.ts: src/index.ts.bak
IndexBackup == <<"src/", "index.ts", ".bak">>

\* atoms of path text that contain the character '/'
DirAtoms == {"src/", "lib/", "dist/", "docs/", "tools/", "resources/", "x/"}

\* priority_patterns of _identify_key_files, in order
PriorityPatterns == <<
    <<"package.json">>, <<"README.md">>,
    <<"src/", "index.ts">>, <<"src/", "index.js">>,
    <<"src/", "server.ts">>, <<"src/", "server.js">>,
    <<"src/", "main.ts">>, <<"src/", "main.js">>,
    <<"index.ts">>, <<"index.js">>, <<"server.ts">>, <<"server.js">>,
    <<"mcp.json">>, <<"tsconfig.json">>,
    <<"src/", "types.ts">>, <<"src/", "types.d.ts">>,
    <<"src/", "tools/">>, <<"src/", "resources/">>,
    <<"lib/", "index.ts">>, <<"lib/", "index.js">>, <<"dist/", "index.js">>,
    <<"Dockerfile">>, <<"docker-compose.yml">>,
    <<"docs/", "README.md">>, <<"docs/", "API.md">>, <<"docs/", "api.md">>,
    <<"CHANGELOG.md">>, <<"LICENSE">> >>

\* `'/' in pattern`
HasSlashChar(pattern) == \E i \in DOMAIN pattern : pattern[i] \in DirAtoms

\* `pattern in file_path`
Contains(path, pattern) ==
    \E i \in 0..(Len(path) - Len(pattern)) :
        SubSeq(path, i + 1, i + Len(pattern)) = pattern

\* file_path.endswith(pattern)
EndsWith(path, pattern) ==
    /\ Len(pattern) <= Len(path)
    /\ SubSeq(path, Len(path) - Len(pattern) + 1, Len(path)) = pattern

PatternMatches(pattern, path) ==
    IF HasSlashChar(pattern) THEN Contains(path, pattern)
    ELSE EndsWith(path, pattern)

\* most key files returned: `key_files[:15]`
MaxKeyFiles == 15

\* tree_files: the 'path' of every tree item that has one, then the summary's
\* 'files' (lines 237-246)
RECURSIVE TreePathsOf(_)
TreePathsOf(items) ==
    IF items = <<>> THEN <<>>
    ELSE (IF "path" \in DOMAIN items[1] THEN <<items[1]["path"]>> ELSE <<>>)
         \o TreePathsOf(Tail(items))

TreeFiles(tree, summary) ==
    (IF "tree" \in DOMAIN tree THEN TreePathsOf(tree["tree"]) ELSE <<>>)
    \o (IF "files" \in DOMAIN summary THEN summary["files"] ELSE <<>>)

\* The loops of lines 249-259 append a path when the first pattern that
\* matches it is reached, at its first occurrence in tree_files (a later
\* pattern or occurrence finds it `in key_files` already).

\* index of the first priority pattern that matches the path, 0 when none does
FirstMatch(path) ==
    LET hits == {n \in 1..Len(PriorityPatterns) :
                    PatternMatches(PriorityPatterns[n], path)}
    IN  IF hits = {} THEN 0 ELSE CHOOSE n \in hits : \A k \in hits : n <= k

\* positions of tree_files that get appended
Appended(paths) ==
    {i \in 1..Len(paths) :
        FirstMatch(paths[i]) > 0 /\ \A j \in 1..(i - 1) : paths[j] # paths[i]}

\* the loops with the files outside and the patterns inside: a matching path
\* is appended in input order
InputOrderBefore(paths, i, j) == i < j

\* position i is appended before position j: the outer loop runs over the
\* patterns in order, the inner loop over tree_files in order
AppendedBefore(paths, i, j) ==
    \/ FirstMatch(paths[i]) < FirstMatch(paths[j])
    \/ FirstMatch(paths[i]) = FirstMatch(paths[j]) /\ i < j

\* key_files when the loops end
MatchPatterns(paths) ==
    LET sel == Appended(paths)
        Selected(i) == i \in sel
        Before(i, j) == AppendedBefore(paths, i, j)
        order == SortSeq(SelectSeq([i \in 1..Len(paths) |-> i], Selected), Before)
    IN  [k \in 1..Len(order) |-> paths[order[k]]]

\* _identify_key_files without the slice of line 262
identify_key_files_untruncated(tree, summary) ==
    MatchPatterns(TreeFiles(tree, summary))

\* _identify_key_files
identify_key_files(tree, summary) ==
    LET all == MatchPatterns(TreeFiles(tree, summary))
    IN  SubSeq(all, 1, IF Len(all) < MaxKeyFiles THEN Len(all) ELSE MaxKeyFiles)

----------------------------------------------------------------------------
(* Ingestion: _get_repository_summary, _get_repository_tree,
   _extract_file_contents *)

\* objects the ingestion service may answer a summary request with
SummaryPayloads ==
    {[name |-> <<"acme", "/", "widget-mcp">>, description |-> "A widget server",
      files |-> <<Readme, License>>, token_count |-> 1200]}

\* objects the ingestion service may answer a tree request with
TreePayloads ==
    {[tree |-> <<[path |-> PkgJsonInX], [path |-> Readme], [path |-> ToolA],
                 [type |-> "directory"]>>]}

\* objects the ingestion service may answer a file request with
FilePayloads == {[p \in {PkgJsonInX, Readme, Notes} |-> "text"]}

SummaryOutcomes == Outcomes("git_summary", SummaryPayloads)

TreeOutcomes == Outcomes("git_tree", TreePayloads)

FileOutcomes == Outcomes("git_files", FilePayloads)

\* the placeholder summaries of lines 161-170
DegradedSummary(o, r, why) ==
    [name |-> o \o <<"/">> \o r, description |-> why, files |-> <<>>,
     token_count |-> 0]

get_repository_summary(o, r, res) ==
    CASE res.kind = "raises"  -> Raise("OSError")
      [] res.kind = "timeout" -> Return(DegradedSummary(o, r, "Analysis timed out"))
      [] res.kind = "nonzero" -> Return(DegradedSummary(o, r, "GitIngest call failed"))
      [] OTHER ->
           IF HasJson(res.stdout)
           THEN LET parsed == json_loads(JsonStr(res.stdout), res.members_ok, res.payload)
                IN  IF parsed.ok THEN Return(parsed.value)
                    ELSE Return(DegradedSummary(o, r, "JSON parse failed"))
           ELSE Return(DegradedSummary(o, r, "Analysis failed"))

\* the placeholder tree of lines 193-199
EmptyTree == [tree |-> <<>>]

\* _get_repository_tree without JSONDecodeError in the except clause of
\* line 197: the parse failure propagates
get_repository_tree_unguarded(res) ==
    CASE res.kind = "raises"  -> Raise("OSError")
      [] res.kind = "timeout" -> Return(EmptyTree)
      [] res.kind = "nonzero" -> Return(EmptyTree)
      [] OTHER ->
           IF HasJson(res.stdout)
           THEN LET parsed == json_loads(JsonStr(res.stdout), res.members_ok, res.payload)
                IN  IF parsed.ok THEN Return(parsed.value) ELSE Raise("JSONDecodeError")
           ELSE Return(EmptyTree)

get_repository_tree(res) ==
    CASE res.kind = "raises"  -> Raise("OSError")
      [] res.kind = "timeout" -> Return(EmptyTree)
      [] res.kind = "nonzero" -> Return(EmptyTree)
      [] OTHER ->
           IF HasJson(res.stdout)
           THEN LET parsed == json_loads(JsonStr(res.stdout), res.members_ok, res.payload)
                IN  IF parsed.ok THEN Return(parsed.value) ELSE Return(EmptyTree)
           ELSE Return(EmptyTree)

\* lines 292-296 handing back the parsed object as it is
WholeResponse(paths, files_data) == files_data

\* lines 292-296: the requested paths that the parsed object has
SelectRequested(paths, files_data) ==
    [p \in Range(paths) \cap DOMAIN files_data |-> files_data[p]]

\* _extract_file_contents after the early return for an empty path list
extract_file_contents(paths, res) ==
    CASE res.kind = "raises"  -> Raise("OSError")
      [] res.kind = "timeout" -> Return(EmptyObject)
      [] res.kind = "nonzero" -> Return(EmptyObject)
      [] OTHER ->
           IF HasJson(res.stdout)
           THEN LET parsed == json_loads(JsonStr(res.stdout), res.members_ok, res.payload)
                IN  IF parsed.ok THEN Return(SelectRequested(paths, parsed.value))
                    ELSE Return(EmptyObject)
           ELSE Return(EmptyObject)

----------------------------------------------------------------------------
(* Configuration records *)

Sections == {"metadata", "deployment", "automation", "integration",
             "security", "monitoring", "maintenance"}

\* a JSON value that is not an object (a string, a number, a list)
NonMapping == [json_scalar |-> "text"]

IsMapping(v) == "json_scalar" \notin DOMAIN v

\* mcp-servers/templates/_template.json: the reference record, with the seven
\* sections of the output format, each a non-empty mapping
Template ==
    [sec \in Sections |->
        IF sec = "metadata"
        THEN [server_id |-> "template-server-id", display_name |-> "Template Server",
              analysis_date |-> "template-date"]
        ELSE [template_default |-> sec]]

\* datetime.now().isoformat()
Now == "now"

\* dict item assignment d[k] = v
SetKey(d, k, v) == (k :> v) @@ d

\* _fallback_config returning the stamped metadata section in place of the
\* whole template
fallback_config_metadata_only(template_readable) ==
    IF ~template_readable THEN Raise("FileNotFoundError")
    ELSE Return([metadata |->
             SetKey(SetKey(Template["metadata"], "analysis_date", Now),
                    "generated_by", "fallback_generator")])

\* _fallback_config also writing the display name of its metadata
fallback_config_renamed(template_readable) ==
    IF ~template_readable THEN Raise("FileNotFoundError")
    ELSE Return(SetKey(Template, "metadata",
             SetKey(SetKey(SetKey(Template["metadata"], "analysis_date", Now),
                           "generated_by", "fallback_generator"),
                    "display_name", "Fallback Server")))

\* _fallback_config stamping a section that the loaded template lacks
fallback_config_missing_section(template_readable) ==
    IF ~template_readable THEN Raise("FileNotFoundError") ELSE Raise("KeyError")

\* _fallback_config: the template with two metadata keys stamped; raises when
\* the template file cannot be opened
fallback_config(template_readable) ==
    IF ~template_readable THEN Raise("FileNotFoundError")
    ELSE Return(SetKey(Template, "metadata",
             SetKey(SetKey(Template["metadata"], "analysis_date", Now),
                    "generated_by", "fallback_generator")))

\* objects a backend may write between its braces
ConfigPayloads ==
    {[sec \in Sections |-> [authored_by |-> "backend"]],
     [metadata |-> [server_id |-> "widget"]],
     [metadata |-> NonMapping, deployment |-> [authored_by |-> "backend"]]}

\* what a generation method hands back: a Return or Raise, the path that
\* produced the record, and the backend invocations it made
Generated(ret, path, invoked) ==
    [raises |-> ret.raises, value |-> ret.value,
     path |-> IF ret.raises = "" THEN path ELSE "", invoked |-> invoked]

\* lines 391-408 of _generate_with_gemini, 418-434 of _generate_with_codex:
\* the two methods treat the result of subprocess.run alike
generate_from_result(backend, res, template_readable) ==
    CASE res.kind = "raises" -> Generated(Raise("OSError"), "", <<backend>>)
      [] res.kind \in {"timeout", "nonzero"} ->
           Generated(fallback_config(template_readable), "fallback", <<backend>>)
      [] OTHER ->
           IF HasJson(res.stdout)
           THEN LET parsed == json_loads(JsonStr(res.stdout), res.members_ok, res.payload)
                IN  IF parsed.ok
                    THEN Generated(Return(parsed.value), "enriched", <<backend>>)
                    ELSE Generated(fallback_config(template_readable), "fallback", <<backend>>)
           ELSE Generated(fallback_config(template_readable), "fallback", <<backend>>)

\* _generate_with_gemini trying the next backend, codex, before it falls back
generate_with_gemini_cascading(res, template_readable) ==
    LET first == generate_from_result("gemini", res, template_readable)
    IN  IF first.path = "fallback"
        THEN [first EXCEPT !.invoked = <<"gemini", "codex">>]
        ELSE first

generate_with_gemini(res, template_readable) ==
    generate_from_result("gemini", res, template_readable)

generate_with_codex(res, template_readable) ==
    generate_from_result("codex", res, template_readable)

\* _generate_with_claude: no external call
generate_with_claude(template_readable) ==
    Generated(fallback_config(template_readable), "fallback", <<>>)

\* _generate_config_with_agent: the template is loaded (lines 317-320) before
\* the selected backend is called (lines 329-334)
generate_config_with_agent(selected, res, template_readable) ==
    IF ~template_readable THEN Generated(Raise("FileNotFoundError"), "", <<>>)
    ELSE IF selected = "gemini" THEN generate_with_gemini(res, template_readable)
    ELSE IF selected = "codex" THEN generate_with_codex(res, template_readable)
    ELSE generate_with_claude(template_readable)

\* the outcomes of the call _generate_config_with_agent makes: none when the
\* template cannot be read or the in-process backend is selected
GeminiOutcomes == Outcomes("gemini", ConfigPayloads)

CodexOutcomes == Outcomes("codex", ConfigPayloads)

GenerationOutcomes(selected, template_readable) ==
    IF template_readable /\ selected = "gemini" THEN GeminiOutcomes
    ELSE IF template_readable /\ selected = "codex" THEN CodexOutcomes
    ELSE {NoCall}

\* main, lines 496-500: config.get('metadata', {}).get(...) raises
\* AttributeError when the record's metadata is not a mapping
report_raises(record) ==
    "metadata" \in DOMAIN record /\ ~IsMapping(record["metadata"])

----------------------------------------------------------------------------
(* The stages of analyze_repository after the validity check (lines 73-112)
   and of main after analyze_repository (lines 489-500), entered with a
   resolved reference.  The check of line 70 lets no reference through in a
   run of main (Spec), so this is the stage code as a caller of the
   analyser's methods reaches it. *)

InitStages ==
    /\ url = WidgetUrl
    /\ server_name \in ServerNames
    /\ argOutput \in OutputArgs
    /\ argAgent = ""
    /\ selected_agent \in Agents
    /\ available_agents = [a \in Agents |-> a \in {selected_agent, "claude"}]
    /\ pc = "summary"
    /\ temp_dir = "exists"
    /\ owner = parse_github_url(url)[1]
    /\ repo = parse_github_url(url)[2]
    /\ repo_summary = <<>>
    /\ repo_tree = <<>>
    /\ key_files = <<>>
    /\ file_contents = <<>>
    /\ config = <<>>
    /\ config_path = ""
    /\ result = NoCall
    /\ calls = <<>>
    /\ raised = ""
    /\ exit_code = -1
    /\ files0 \in InitialFiles
    /\ NoWriters
    /\ NoCatalogTools
    /\ files = files0

\* analyze_repository, line 75
FetchSummary ==
    /\ pc = "summary"
    /\ \E res \in SummaryOutcomes :
          LET ret == get_repository_summary(owner, repo, res) IN
          /\ result' = res
          /\ calls' = Append(calls, "git_summary")
          /\ IF ret.raises # ""
             THEN raised' = ret.raises /\ pc' = "finally"
                  /\ repo_summary' = repo_summary
             ELSE raised' = raised /\ pc' = "tree"
                  /\ repo_summary' = ret.value
    /\ UNCHANGED <<concurrent, catalog_tools, files0, url, server_name, argAgent, argOutput, available_agents,
                   selected_agent, temp_dir, owner, repo, repo_tree, key_files,
                   file_contents, config, config_path, exit_code, files>>

\* analyze_repository, line 78
FetchTree ==
    /\ pc = "tree"
    /\ \E res \in TreeOutcomes :
          LET ret == get_repository_tree(res) IN
          /\ result' = res
          /\ calls' = Append(calls, "git_tree")
          /\ IF ret.raises # ""
             THEN raised' = ret.raises /\ pc' = "finally"
                  /\ repo_tree' = repo_tree
             ELSE raised' = raised /\ pc' = "key_files"
                  /\ repo_tree' = ret.value
    /\ UNCHANGED <<concurrent, catalog_tools, files0, url, server_name, argAgent, argOutput, available_agents,
                   selected_agent, temp_dir, owner, repo, repo_summary,
                   key_files, file_contents, config, config_path, exit_code,
                   files>>

\* key-file selection that hands over to generation without the contents fetch
IdentifyKeyFilesSkippingFetch ==
    /\ pc = "key_files"
    /\ key_files' = identify_key_files(repo_tree, repo_summary)
    /\ result' = NoCall
    /\ pc' = "context"
    /\ UNCHANGED <<concurrent, catalog_tools, files0, url, server_name, argAgent, argOutput, available_agents,
                   selected_agent, temp_dir, owner, repo, repo_summary,
                   repo_tree, file_contents, config, config_path, calls,
                   raised, exit_code, files>>

\* analyze_repository, line 81
IdentifyKeyFiles ==
    /\ pc = "key_files"
    /\ key_files' = identify_key_files(repo_tree, repo_summary)
    /\ result' = NoCall
    /\ pc' = "files"
    /\ UNCHANGED <<concurrent, catalog_tools, files0, url, server_name, argAgent, argOutput, available_agents,
                   selected_agent, temp_dir, owner, repo, repo_summary,
                   repo_tree, file_contents, config, config_path, calls,
                   raised, exit_code, files>>

\* analyze_repository, line 84; lines 266-267 return {} without a call when
\* there is no path to request
ExtractFileContents ==
    /\ pc = "files"
    /\ IF key_files = <<>>
       THEN /\ file_contents' = EmptyObject
            /\ pc' = "context"
            /\ UNCHANGED <<result, calls, raised>>
       ELSE \E res \in FileOutcomes :
               LET ret == extract_file_contents(key_files, res) IN
               /\ result' = res
               /\ calls' = Append(calls, "git_files")
               /\ IF ret.raises # ""
                  THEN raised' = ret.raises /\ pc' = "finally"
                       /\ file_contents' = file_contents
                  ELSE raised' = raised /\ pc' = "context"
                       /\ file_contents' = ret.value
    /\ UNCHANGED <<concurrent, catalog_tools, files0, url, server_name, argAgent, argOutput, available_agents,
                   selected_agent, temp_dir, owner, repo, repo_summary,
                   repo_tree, key_files, config, config_path, exit_code, files>>

\* analyze_repository, lines 86-105: the analysis context, a value built from
\* the results of the stages
AnalysisContext ==
    [repository |-> [owner |-> owner, repo |-> repo, url |-> url,
                     server_name |-> server_name],
     gitingest_data |-> [summary |-> repo_summary, tree |-> repo_tree,
                         files |-> file_contents],
     analysis_metadata |-> [timestamp |-> Now, analyzer |-> selected_agent,
                            key_files_count |-> Len(key_files),
                            available_agents |-> available_agents]]

BuildContext ==
    /\ pc = "context"
    /\ result' = NoCall
    /\ pc' = "generate"
    /\ UNCHANGED <<concurrent, catalog_tools, files0, url, server_name, argAgent, argOutput, available_agents,
                   selected_agent, temp_dir, owner, repo, repo_summary,
                   repo_tree, key_files, file_contents, config, config_path,
                   calls, raised, exit_code, files>>

\* analyze_repository, lines 107-112: generate the record, and leave
\* the try block by `return config` or by the exception; the stage results
\* are not read again
GenerateConfig ==
    /\ pc = "generate"
    /\ \E template_readable \in BOOLEAN :
       \E res \in GenerationOutcomes(selected_agent, template_readable) :
          LET g == generate_config_with_agent(selected_agent, res, template_readable) IN
          /\ result' = res
          /\ calls' = calls \o g.invoked
          /\ IF g.raises # ""
             THEN raised' = g.raises /\ config' = config
                  /\ config_path' = config_path
             ELSE raised' = raised /\ config' = <<g.value>>
                  /\ config_path' = g.path
    /\ repo_summary' = <<>>
    /\ repo_tree' = <<>>
    /\ key_files' = <<>>
    /\ file_contents' = <<>>
    /\ pc' = "finally"
    /\ UNCHANGED <<concurrent, catalog_tools, files0, url, server_name, argAgent, argOutput, available_agents,
                   selected_agent, temp_dir, owner, repo, exit_code, files>>

\* main, lines 489-494: open(output_path, 'w') and json.dump; opening fails
\* with OSError when the directory is missing or not writable
Write ==
    /\ pc = "write"
    /\ \E opens \in BOOLEAN :
          IF opens
          THEN /\ files' = [files EXCEPT ![OutputPath(argOutput, server_name)] = config]
               /\ pc' = "report"
               /\ raised' = raised
          ELSE /\ files' = files
               /\ pc' = "main_except"
               /\ raised' = "OSError"
    /\ UNCHANGED <<concurrent, catalog_tools, files0, url, server_name, argAgent, argOutput, available_agents,
                   selected_agent, temp_dir, owner, repo, repo_summary,
                   repo_tree, key_files, file_contents, config, config_path,
                   result, calls, exit_code>>

\* main, lines 496-500: the closing prints, then the process ends with 0
Report ==
    /\ pc = "report"
    /\ IF report_raises(config[1])
       THEN raised' = "AttributeError" /\ pc' = "main_except"
            /\ exit_code' = exit_code
       ELSE raised' = raised /\ pc' = "done" /\ exit_code' = 0
    /\ UNCHANGED <<concurrent, catalog_tools, files0, url, server_name, argAgent, argOutput, available_agents,
                   selected_agent, temp_dir, owner, repo, repo_summary,
                   repo_tree, key_files, file_contents, config, config_path,
                   result, calls, files>>

NextStages ==
    \/ FetchSummary \/ FetchTree \/ IdentifyKeyFiles \/ ExtractFileContents
    \/ BuildContext \/ GenerateConfig \/ Cleanup \/ Write \/ Report \/ ExitFailure

SpecStages == InitStages /\ [][NextStages]_vars

\* _generate_config_with_agent, lines 312-324: the context file and the copy
\* of the template are written into the scratch directory
UsesScratch == pc = "generate"

\* The runs of main together with the stage code entered with a resolved
\* reference: every exit path of analyze_repository and of main
InitRun == Init \/ InitStages

NextRun == Next \/ NextStages

SpecRun == InitRun /\ [][NextRun]_vars

----------------------------------------------------------------------------
(* _identify_key_files applied to the trees and summaries the ingestion
   service may answer with *)

\* paths of a repository, in the order a tree lists them: one that matches no
\* pattern, several that match two patterns, a path listed twice, and more
\* than MaxKeyFiles distinct paths that match
KeyPool == <<
    License, Notes, ToolA, <<"src/", "tools/", "index.ts">>, Readme,
    PkgJsonInX, <<"docs/", "README.md">>, <<"Dockerfile">>,
    <<"src/", "index.ts">>, <<"lib/", "index.js">>, <<"src/", "server.ts">>,
    <<"mcp.json">>, <<"tsconfig.json">>, <<"src/", "types.ts">>,
    <<"CHANGELOG.md">>, <<"package.json">>, <<"src/", "main.js">>,
    <<"docker-compose.yml">>, <<"src/", "resources/", "r.ts">>, Readme >>

\* most items of a tree
MaxTreeItems == 20

\* the tree that lists n paths of the pool from its k-th on, going round
PoolTree(k, n) ==
    [tree |-> [i \in 1..n |-> [path |-> KeyPool[((k + i - 2) % Len(KeyPool)) + 1]]]]

KeyTrees ==
    {PoolTree(k, n) : k \in {1, 6, 11, 16}, n \in 0..MaxTreeItems}
    \cup {EmptyObject,
          [tree |-> <<[type |-> "directory"], [path |-> Readme], [path |-> Readme]>>]}

KeySummaries ==
    {[name |-> <<"acme", "/", "widget-mcp">>, files |-> f] :
        f \in {<<>>, <<Readme, License>>, <<Notes, <<"mcp.json">>, <<"index.js">>, Readme>>,
               <<IndexBackup, <<"src/", "index.ts">>>>}}
    \cup {EmptyObject}

InitKeyFiles ==
    /\ url = WidgetUrl
    /\ server_name = "widget"
    /\ argOutput = ""
    /\ argAgent = ""
    /\ selected_agent = "claude"
    /\ available_agents = [a \in Agents |-> a = "claude"]
    /\ pc = "key_files"
    /\ temp_dir = "exists"
    /\ owner = parse_github_url(url)[1]
    /\ repo = parse_github_url(url)[2]
    /\ repo_summary \in KeySummaries
    /\ repo_tree \in KeyTrees
    /\ key_files = <<>>
    /\ file_contents = <<>>
    /\ config = <<>>
    /\ config_path = ""
    /\ result = NoCall
    /\ calls = <<"git_summary", "git_tree">>
    /\ raised = ""
    /\ exit_code = -1
    /\ files0 = [p \in OutputPaths |-> <<>>]
    /\ NoWriters
    /\ NoCatalogTools
    /\ files = files0

NextKeyFiles == IdentifyKeyFiles

SpecKeyFiles == InitKeyFiles /\ [][NextKeyFiles]_vars

----------------------------------------------------------------------------
(* _parse_github_url applied to an input URL *)

InitUrl ==
    /\ url \in AllUrls
    /\ server_name = "widget"
    /\ argAgent = ""
    /\ argOutput = ""
    /\ Unstarted

ParseUrl ==
    /\ pc = "start"
    /\ owner' = parse_github_url(url)[1]
    /\ repo' = parse_github_url(url)[2]
    /\ pc' = "parsed"
    /\ UNCHANGED <<concurrent, catalog_tools, files0, url, server_name, argAgent, argOutput, available_agents,
                   selected_agent, temp_dir, repo_summary, repo_tree,
                   key_files, file_contents, config, config_path, result,
                   calls, raised, exit_code, files>>

NextUrl == ParseUrl

SpecUrl == InitUrl /\ [][NextUrl]_vars

----------------------------------------------------------------------------
(* src/scripts/analyze_mcp_server_repo.py: MCPServerAnalyzer *)

\* analyze_server_repository, line 30: `if not owner or not repo`
SrvInvalidReference(o, r) == o = <<>> \/ r = <<>>

\* _get_repository_summary (a placeholder in this analyser)
srv_repository_summary(o, r) ==
    [name |-> o \o <<"/">> \o r, description |-> "Repository description from API",
     files |-> <<>>, token_count |-> 0, summary |-> "Repository summary content"]

\* _get_repository_tree (a placeholder in this analyser)
srv_repository_tree == [tree |-> <<>>]

\* _identify_key_files: priority_files[:10]
srv_key_files ==
    <<"package.json", "README.md", "src/index.ts", "src/index.js",
      "src/server.ts", "src/server.js", "index.ts", "index.js", "mcp.json",
      "tsconfig.json">>

\* A file's text, as far as the tool patterns of lines 188-192 see it: the
\* sequence of its pieces, each one a match of pattern 1, 2 or 3 that captures
\* `name`, or other text (pattern 0)
OtherText == [pattern |-> 0, name |-> ""]

\* _extract_file_contents: "Content of {path} would be extracted here"
srv_file_contents(paths) == [p \in Range(paths) |-> <<OtherText>>]

\* _analyze_deployment_options
analyze_deployment_options(contents) ==
    [smithery |-> TRUE,
     local    |-> "package.json" \in DOMAIN contents,
     docker   |-> "Dockerfile" \in DOMAIN contents
                  \/ "docker-compose.yml" \in DOMAIN contents,
     npm      |-> "package.json" \in DOMAIN contents]

\* _determine_priority_deployment asking for npm, then docker, first
determine_priority_deployment_npm_first(deployment_info) ==
    IF deployment_info.npm THEN "npm"
    ELSE IF deployment_info.docker THEN "docker"
    ELSE IF deployment_info.smithery THEN "smithery"
    ELSE IF deployment_info.local THEN "local"
    ELSE "manual"

\* _determine_priority_deployment
determine_priority_deployment(deployment_info) ==
    IF deployment_info.smithery THEN "smithery"
    ELSE IF deployment_info.npm THEN "npm"
    ELSE IF deployment_info.local THEN "local"
    ELSE IF deployment_info.docker THEN "docker"
    ELSE "manual"

\* source_files of _analyze_tools_and_resources, in order
SourceFiles ==
    <<"src/index.ts", "src/index.js", "src/server.ts", "src/server.js",
      "index.ts", "index.js">>

\* file_contents.get(file_path, '')
ContentOf(contents, path) ==
    IF path \in DOMAIN contents THEN contents[path] ELSE <<>>

\* the matches the loops of lines 184-196 visit: <<file, pattern, position>>
MatchesIn(content, f) ==
    {<<f, content[i].pattern, i>> : i \in {j \in DOMAIN content : content[j].pattern # 0}}

ToolMatches(contents) ==
    UNION {MatchesIn(ContentOf(contents, SourceFiles[f]), f) : f \in DOMAIN SourceFiles}

ToolNameAt(contents, m) == ContentOf(contents, SourceFiles[m[1]])[m[3]].name

\* the loops visit match a before match b: files in order, for each file the
\* patterns in order, for each pattern its matches in order
VisitedBefore(a, b) ==
    \/ a[1] < b[1]
    \/ a[1] = b[1] /\ a[2] < b[2]
    \/ a[1] = b[1] /\ a[2] = b[2] /\ a[3] < b[3]

\* the matches that append a tool when `tools` is compared within one file only
ToolsAddedPerFile(contents) ==
    LET all == ToolMatches(contents)
    IN  {m \in all :
            \A e \in all :
                (VisitedBefore(e, m) /\ e[1] = m[1])
                => ToolNameAt(contents, e) # ToolNameAt(contents, m)}

\* the matches that append a tool: no match visited before has the same name
ToolsAdded(contents) ==
    LET all == ToolMatches(contents)
    IN  {m \in all :
            \A e \in all :
                VisitedBefore(e, m) => ToolNameAt(contents, e) # ToolNameAt(contents, m)}

\* _analyze_tools_and_resources: the list `tools`
analyze_tools(contents) ==
    LET added == ToolsAdded(contents)
    IN  [k \in 1..Cardinality(added) |->
            LET m == CHOOSE c \in added :
                        Cardinality({e \in added : VisitedBefore(e, c)}) = k - 1
            IN  [name |-> ToolNameAt(contents, m),
                 description |-> SourceFiles[m[1]]]]

\* _generate_server_config: the record, with the fields of metadata that
\* depend on the run and one entry for the fixed ones
generate_server_config(name, u, summary, tools, deployment_info) ==
    LET ref == parse_github_url(u)
        namespace == IF ref[1] # <<>> THEN ref[1] ELSE <<"unknown">>
        package == IF ref[2] # <<>> THEN ref[2] ELSE <<name>>
    IN  [metadata |->
           [server_id |-> name, namespace |-> namespace, package |-> package,
            description |-> summary.description, tools |-> tools,
            priority_deployment |-> determine_priority_deployment(deployment_info),
            tags |-> <<"mcp-server">>, repository_url |-> u,
            analysis_date |-> Now, analysis_version |-> "1.0.0"],
         deployment |-> [smithery |-> [available |-> deployment_info.smithery]],
         automation |-> [global_instructions |-> [enabled |-> FALSE]],
         integration |-> [mcp_servers |-> <<>>],
         security |-> [authentication |-> [methods |-> <<"api_key">>]],
         monitoring |-> [health_check |-> [endpoint |-> "/health"]],
         maintenance |-> [update_frequency |-> "monthly"]]

InitServer ==
    /\ url \in RunUrls
    /\ server_name \in ServerNames
    /\ argAgent = ""
    /\ argOutput \in OutputArgs
    /\ Unstarted

\* analyze_server_repository, lines 28-31
SrvResolve ==
    /\ pc = "start"
    /\ owner' = parse_github_url(url)[1]
    /\ repo' = parse_github_url(url)[2]
    /\ IF SrvInvalidReference(parse_github_url(url)[1], parse_github_url(url)[2])
       THEN raised' = "ValueError" /\ pc' = "main_except"
       ELSE raised' = raised /\ pc' = "analyze"
    /\ UNCHANGED <<concurrent, catalog_tools, files0, url, server_name, argAgent, argOutput, available_agents,
                   selected_agent, temp_dir, repo_summary, repo_tree,
                   key_files, file_contents, config, config_path, result,
                   calls, exit_code, files>>

\* analyze_server_repository, lines 33-59
SrvAnalyze ==
    /\ pc = "analyze"
    /\ repo_summary' = srv_repository_summary(owner, repo)
    /\ repo_tree' = srv_repository_tree
    /\ key_files' = srv_key_files
    /\ file_contents' = srv_file_contents(srv_key_files)
    /\ config' = <<generate_server_config(server_name, url,
                      srv_repository_summary(owner, repo),
                      analyze_tools(srv_file_contents(srv_key_files)),
                      analyze_deployment_options(srv_file_contents(srv_key_files)))>>
    /\ config_path' = "generated"
    /\ pc' = "write"
    /\ UNCHANGED <<concurrent, catalog_tools, files0, url, server_name, argAgent, argOutput, available_agents,
                   selected_agent, temp_dir, owner, repo, result, calls,
                   raised, exit_code, files>>

\* main, lines 466-468: the closing prints read config['metadata']['tools']
\* and config['metadata']['tags'], which _generate_server_config always sets
SrvReport ==
    /\ pc = "report"
    /\ exit_code' = 0
    /\ pc' = "done"
    /\ UNCHANGED <<concurrent, catalog_tools, files0, url, server_name, argAgent, argOutput, available_agents,
                   selected_agent, temp_dir, owner, repo, repo_summary,
                   repo_tree, key_files, file_contents, config, config_path,
                   result, calls, raised, files>>

\* main of analyze_mcp_server_repo.py; lines 459-464 are Write, lines 470-472
\* ExitFailure
NextServer == SrvResolve \/ SrvAnalyze \/ Write \/ SrvReport \/ ExitFailure

SpecServer == InitServer /\ [][NextServer]_vars

----------------------------------------------------------------------------
(* Steps 4 and 5 of analyze_server_repository (lines 45-57) applied to the
   file contents an extraction may return: _extract_file_contents is a
   placeholder in this analyser, so the contents are drawn here *)

\* most pieces of the text of one source file
MaxPieces == 2

\* the pieces of a source file's text: other text, or a match of tool
\* pattern 1, 2 or 3 that captures the name a or b
Pieces ==
    {OtherText} \cup {[pattern |-> q, name |-> n] : q \in 1..3, n \in {"a", "b"}}

\* most pieces of the text of the second source file
MaxMorePieces == 1

\* the texts of a source file of at most n pieces; <<>> is an absent file
SourceTexts(n) == SeqsUpTo(Pieces, n)

\* the files that _analyze_deployment_options looks for
DeploymentFiles == {"package.json", "Dockerfile", "docker-compose.yml"}

\* file contents: any of the deployment files, and up to two source files
ContentInputs ==
    {[p \in present \cup {f \in {"src/index.ts", "index.js"} : src[f] # <<>>} |->
         IF p \in present THEN <<OtherText>> ELSE src[p]] :
       present \in SUBSET DeploymentFiles,
       src \in {[f \in {"src/index.ts", "index.js"} |->
                    IF f = "index.js" THEN more ELSE first] :
                  first \in SourceTexts(MaxPieces),
                  more \in SourceTexts(MaxMorePieces)}}

InitContents ==
    /\ url = WidgetUrl
    /\ server_name = "widget"
    /\ argAgent = ""
    /\ argOutput = ""
    /\ available_agents = NoAgents
    /\ selected_agent = ""
    /\ pc = "contents"
    /\ temp_dir = "none"
    /\ owner = parse_github_url(url)[1]
    /\ repo = parse_github_url(url)[2]
    /\ repo_summary = srv_repository_summary(owner, repo)
    /\ repo_tree = srv_repository_tree
    /\ key_files = srv_key_files
    /\ file_contents \in ContentInputs
    /\ config = <<>>
    /\ config_path = ""
    /\ result = NoCall
    /\ calls = <<>>
    /\ raised = ""
    /\ exit_code = -1
    /\ files0 = [p \in OutputPaths |-> <<>>]
    /\ files = files0
    /\ NoWriters
    /\ NoCatalogTools

\* analyze_server_repository, lines 45-57
SrvGenerate ==
    /\ pc = "contents"
    /\ config' = <<generate_server_config(server_name, url, repo_summary,
                      analyze_tools(file_contents),
                      analyze_deployment_options(file_contents))>>
    /\ config_path' = "generated"
    /\ pc' = "write"
    /\ UNCHANGED <<concurrent, catalog_tools, files0, url, server_name, argAgent, argOutput,
                   available_agents, selected_agent, temp_dir, owner, repo,
                   repo_summary, repo_tree, key_files, file_contents, result,
                   calls, raised, exit_code, files>>

NextContents == SrvGenerate

SpecContents == InitContents /\ [][NextContents]_vars

----------------------------------------------------------------------------
(* Two processes that write the same output file at once: main, lines
   489-494, and save_config, lines 453-460.  `with open(output_path, 'w')`
   empties the file when it opens it; json.dump fills the file object's
   buffer, which is written block by block at the process's own file offset
   when it fills and when the file is closed. *)

Writers == {1, 2}

\* most blocks of the text of one record
MaxBlocks == 3

\* the text json.dump gives the record of process w: n blocks
RecordText(w, n) == [i \in 1..n |-> <<w, i>>]

\* a block no process wrote: the gap a write past the end of the file leaves
Hole == <<0, 0>>

\* write(fd, block) at the given offset, counted in blocks
WriteAt(text, offset, block) ==
    LET len == IF Len(text) > offset + 1 THEN Len(text) ELSE offset + 1
    IN  [i \in 1..len |->
            IF i = offset + 1 THEN block
            ELSE IF i <= Len(text) THEN text[i]
            ELSE Hole]

InitConcurrent ==
    /\ url = WidgetUrl
    /\ server_name = "widget"
    /\ argAgent = ""
    /\ argOutput = ""
    /\ available_agents = [a \in Agents |-> a = "claude"]
    /\ selected_agent = "claude"
    /\ pc = "write"
    /\ temp_dir = "removed"
    /\ owner = <<>>
    /\ repo = <<>>
    /\ repo_summary = <<>>
    /\ repo_tree = <<>>
    /\ key_files = <<>>
    /\ file_contents = <<>>
    /\ config = <<>>
    /\ config_path = ""
    /\ result = NoCall
    /\ calls = <<>>
    /\ raised = ""
    /\ exit_code = -1
    /\ files0 = [p \in OutputPaths |-> <<>>]
    /\ files = files0
    /\ \E n1 \in 1..MaxBlocks, n2 \in 1..MaxBlocks :
          writers = [w \in Writers |->
                        [pc |-> "analysed", offset |-> 0, written_at |-> 0,
                         text |-> RecordText(w, IF w = 1 THEN n1 ELSE n2)]]
    /\ disk \in {<<>>, RecordText(0, 1)}
    /\ NoCatalogTools

\* number of blocks the two processes have written so far
BlocksWritten == writers[1].offset + writers[2].offset

\* open(output_path, 'w'): the file is created or emptied
OpenOutput ==
    /\ \E w \in Writers :
          /\ writers[w].pc = "analysed"
          /\ writers' = [writers EXCEPT ![w].pc = "open"]
    /\ disk' = <<>>
    /\ UNCHANGED <<pc, url, server_name, argAgent, argOutput, available_agents,
                   selected_agent, temp_dir, owner, repo, repo_summary,
                   repo_tree, key_files, file_contents, config, config_path,
                   result, calls, raised, exit_code, files, files0, catalog_tools>>

\* one block of the buffer is written at the process's offset
WriteBlock ==
    /\ \E w \in Writers :
          /\ writers[w].pc = "open"
          /\ writers[w].offset < Len(writers[w].text)
          /\ disk' = WriteAt(disk, writers[w].offset,
                             writers[w].text[writers[w].offset + 1])
          /\ writers' = [writers EXCEPT
                ![w].offset = @ + 1,
                ![w].written_at = 1 + BlocksWritten]
    /\ UNCHANGED <<pc, url, server_name, argAgent, argOutput, available_agents,
                   selected_agent, temp_dir, owner, repo, repo_summary,
                   repo_tree, key_files, file_contents, config, config_path,
                   result, calls, raised, exit_code, files, files0, catalog_tools>>

\* the with block ends: the file is closed once all of the text is written
CloseOutput ==
    /\ \E w \in Writers :
          /\ writers[w].pc = "open"
          /\ writers[w].offset = Len(writers[w].text)
          /\ writers' = [writers EXCEPT ![w].pc = "closed"]
    /\ UNCHANGED <<pc, url, server_name, argAgent, argOutput, available_agents,
                   selected_agent, temp_dir, owner, repo, repo_summary,
                   repo_tree, key_files, file_contents, config, config_path,
                   result, calls, raised, exit_code, files, files0, disk,
                   catalog_tools>>

NextConcurrent == OpenOutput \/ WriteBlock \/ CloseOutput

SpecConcurrent == InitConcurrent /\ [][NextConcurrent]_vars

----------------------------------------------------------------------------
(* The catalog tools: src/catalog/validate-catalog.py (CatalogValidator) and
   src/catalog/generate-coverage.py (CoverageReporter).  Both read the
   catalog file mcp_servers.yaml; a server is a mapping, a missing key is a
   key outside its DOMAIN, and tool_coverage is text in atoms *)

\* dict.get(key, default)
Get(d, k, default) == IF k \in DOMAIN d THEN d[k] ELSE default

\* most servers of a catalog
MaxServers == 2

\* servers of a catalog: complete; documented above total and a dangling
\* reference; recommended without use cases or deniz tags and with more
\* tools than documented; coverage that is not a number; coverage of three
\* parts; hardly any key
CatalogServers ==
    {[id |-> "alpha", name |-> "Alpha", category |-> "db", maturity |-> "stable",
      auth_model |-> "api_key", tools |-> <<"query", "write">>,
      tool_coverage |-> <<"2", "/", "2">>, doc_status |-> "complete",
      deniz_recommended |-> TRUE, deniz_use_cases |-> <<"reports">>,
      tags |-> <<"deniz-core">>, pairs_well_with |-> <<"alpha">>],
     [id |-> "beta", category |-> "db", maturity |-> "beta",
      tools |-> <<"scan">>, tool_coverage |-> <<"3", "/", "2">>,
      pairs_well_with |-> <<"ghost">>],
     [id |-> "gamma", name |-> "Gamma", category |-> "web", maturity |-> "stable",
      auth_model |-> "oauth", tools |-> <<"get", "put", "list">>,
      tool_coverage |-> <<"1", "/", "4">>, doc_status |-> "draft",
      deniz_recommended |-> TRUE, tags |-> <<"search">>],
     [id |-> "delta", tools |-> <<>>, tool_coverage |-> <<"x", "/", "2">>,
      doc_status |-> "complete"],
     [id |-> "epsilon", category |-> "web", deniz_recommended |-> FALSE,
      tool_coverage |-> <<"1", "/", "2", "/", "3">>, tools |-> <<"ping">>],
     [name |-> "Zeta"]}

\* what yaml.safe_load returns for a file it can parse
Catalogs ==
    {[servers |-> list] : list \in SeqsUpTo(CatalogServers, MaxServers)}
    \cup {[version |-> "1.0"], EmptyObject}

\* outcomes of opening and parsing a file
LoadOutcomes == {"loaded", "not_found", "syntax_error"}

\* the analysers are not running
AnalysersIdle ==
    /\ url = WidgetUrl
    /\ server_name = "widget"
    /\ argAgent = ""
    /\ argOutput = ""
    /\ available_agents = NoAgents
    /\ selected_agent = ""
    /\ temp_dir = "none"
    /\ owner = <<>>
    /\ repo = <<>>
    /\ repo_summary = <<>>
    /\ repo_tree = <<>>
    /\ key_files = <<>>
    /\ file_contents = <<>>
    /\ config = <<>>
    /\ config_path = ""
    /\ result = NoCall
    /\ calls = <<>>
    /\ files0 = [p \in OutputPaths |-> <<>>]
    /\ files = files0
    /\ NoWriters

\* the variables of the analysers but pc, raised and exit_code
analysers ==
    <<url, server_name, argAgent, argOutput, available_agents, selected_agent,
      temp_dir, owner, repo, repo_summary, repo_tree, key_files,
      file_contents, config, config_path, result, calls, files, files0>>

\* list.append on one of the validator's lists
Record(v, list, message) == [v EXCEPT ![list] = Append(@, message)]

\* the concatenation of a sequence of sequences
RECURSIVE Flatten(_)
Flatten(lists) ==
    IF lists = <<>> THEN <<>> ELSE lists[1] \o Flatten(Tail(lists))

\* text.split("/")
RECURSIVE Split(_)
Split(text) ==
    IF \A i \in DOMAIN text : text[i] # "/" THEN <<text>>
    ELSE LET i == CHOOSE k \in DOMAIN text :
                      text[k] = "/" /\ \A j \in 1..(k - 1) : text[j] # "/"
         IN  <<SubSeq(text, 1, i - 1)>> \o Split(SubSeq(text, i + 1, Len(text)))

Digits == <<"0", "1", "2", "3", "4", "5", "6", "7", "8", "9">>

\* int(part) raises ValueError unless the part is a number
IsInt(part) == part # <<>> /\ \A i \in DOMAIN part : part[i] \in Range(Digits)

RECURSIVE IntOf(_)
IntOf(part) ==
    LET last == CHOOSE d \in DOMAIN Digits : Digits[d] = part[Len(part)]
    IN  IF Len(part) = 1 THEN last - 1
        ELSE 10 * IntOf(SubSeq(part, 1, Len(part) - 1)) + last - 1

\* validate_server_coverage, lines 93-116: what one server adds
CoverageFindings(server) ==
    LET server_id == Get(server, "id", "unknown")
        tool_coverage == Get(server, "tool_coverage", <<>>)
        parts == Split(tool_coverage)
    IN  IF tool_coverage = <<>>
        THEN [errors |-> <<>>,
              warnings |-> << <<server_id, "Missing tool_coverage field">> >>]
        ELSE IF Len(parts) # 2 \/ ~IsInt(parts[1]) \/ ~IsInt(parts[2])
        THEN [errors |-> << <<server_id, "Invalid tool_coverage format">> >>,
              warnings |-> <<>>]
        ELSE [errors |->
                 IF IntOf(parts[1]) > IntOf(parts[2])
                 THEN << <<server_id, "Documented tools exceeds total">> >>
                 ELSE <<>>,
              warnings |->
                 IF IntOf(parts[1]) < Len(Get(server, "tools", <<>>))
                 THEN << <<server_id, "tool_coverage may be inaccurate">> >>
                 ELSE <<>>]

validate_server_coverage(v) ==
    LET servers == Get(v.catalog_data, "servers", <<>>)
        found == [n \in DOMAIN servers |-> CoverageFindings(servers[n])]
    IN  [v EXCEPT
            !.errors = @ \o Flatten([n \in DOMAIN servers |-> found[n].errors]),
            !.warnings = @ \o Flatten([n \in DOMAIN servers |-> found[n].warnings])]

\* validate_references: a warning for every reference to an unknown id
validate_references(v) ==
    LET servers == Get(v.catalog_data, "servers", <<>>)
        server_ids == {Get(servers[n], "id", "None") : n \in DOMAIN servers}
        Dangling(pair_id) == pair_id \notin server_ids
        Warn(n) ==
            LET pairs == SelectSeq(Get(servers[n], "pairs_well_with", <<>>), Dangling)
            IN  [k \in DOMAIN pairs |->
                    <<Get(servers[n], "id", "unknown"), "Referenced server not found", pairs[k]>>]
    IN  [v EXCEPT !.warnings = @ \o Flatten([n \in DOMAIN servers |-> Warn(n)])]

\* the tags t with t.startswith("deniz-")
DenizTags == {"deniz-core"}

\* validate_deniz_tags: warnings for a recommended server without use cases
\* or without a deniz tag
validate_deniz_tags(v) ==
    LET servers == Get(v.catalog_data, "servers", <<>>)
        Warn(n) ==
            IF Get(servers[n], "deniz_recommended", FALSE)
            THEN (IF Get(servers[n], "deniz_use_cases", <<>>) = <<>>
                  THEN << <<Get(servers[n], "id", "unknown"), "Missing deniz_use_cases">> >>
                  ELSE <<>>)
                 \o (IF Range(Get(servers[n], "tags", <<>>)) \cap DenizTags = {}
                     THEN << <<Get(servers[n], "id", "unknown"), "Missing deniz-* tags">> >>
                     ELSE <<>>)
            ELSE <<>>
    IN  [v EXCEPT !.warnings = @ \o Flatten([n \in DOMAIN servers |-> Warn(n)])]

\* report failing the run on a warning too
report_strict(v) == Len(v.errors) = 0 /\ Len(v.warnings) = 0

\* report: `success`
report(v) == Len(v.errors) = 0

\* CatalogValidator.__init__
NewValidator ==
    [errors |-> <<>>, warnings |-> <<>>, catalog_data |-> EmptyObject,
     schema |-> <<>>]

InitValidate ==
    /\ AnalysersIdle
    /\ pc = "load_schema"
    /\ raised = ""
    /\ exit_code = -1
    /\ validator = NewValidator
    /\ reporter = <<>>
    /\ coverage = <<>>

\* validate, lines 199-200 with load_schema; `return False` ends main with 1
LoadSchema ==
    /\ pc = "load_schema"
    /\ \E outcome \in LoadOutcomes :
          IF outcome = "loaded"
          THEN /\ validator' = [validator EXCEPT !.schema = <<"schema">>]
               /\ pc' = "load_yaml"
               /\ exit_code' = exit_code
          ELSE /\ validator' = Record(validator, "errors",
                      IF outcome = "not_found" THEN <<"Schema file not found">>
                      ELSE <<"JSON schema syntax error">>)
               /\ pc' = "done"
               /\ exit_code' = 1
    /\ UNCHANGED <<analysers, concurrent, raised, reporter, coverage>>

\* validate, lines 202-203 with load_yaml
LoadYaml ==
    /\ pc = "load_yaml"
    /\ \E outcome \in LoadOutcomes, data \in Catalogs :
          IF outcome = "loaded" /\ data # EmptyObject
          THEN /\ validator' = [validator EXCEPT !.catalog_data = data]
               /\ pc' = "validate_schema"
               /\ exit_code' = exit_code
          ELSE /\ validator' = Record(validator, "errors",
                      IF outcome = "not_found" THEN <<"YAML file not found">>
                      ELSE IF outcome = "syntax_error" THEN <<"YAML syntax error">>
                      ELSE <<"YAML file is empty">>)
               /\ pc' = "done"
               /\ exit_code' = 1
    /\ UNCHANGED <<analysers, concurrent, raised, reporter, coverage>>

\* validate, lines 205-206 with validate_schema: the schema file decides
\* whether the catalog is valid
ValidateSchema ==
    /\ pc = "validate_schema"
    /\ \E valid \in BOOLEAN :
          IF valid
          THEN /\ validator' = validator
               /\ pc' = "validate_server_coverage"
               /\ exit_code' = exit_code
          ELSE /\ validator' = Record(validator, "errors", <<"Schema validation error">>)
               /\ pc' = "done"
               /\ exit_code' = 1
    /\ UNCHANGED <<analysers, concurrent, raised, reporter, coverage>>

\* validate, line 208
ValidateServerCoverage ==
    /\ pc = "validate_server_coverage"
    /\ validator' = validate_server_coverage(validator)
    /\ pc' = "validate_references"
    /\ UNCHANGED <<analysers, concurrent, raised, exit_code, reporter, coverage>>

\* validate, line 209
ValidateReferences ==
    /\ pc = "validate_references"
    /\ validator' = validate_references(validator)
    /\ pc' = "validate_deniz_tags"
    /\ UNCHANGED <<analysers, concurrent, raised, exit_code, reporter, coverage>>

\* validate, line 210
ValidateDenizTags ==
    /\ pc = "validate_deniz_tags"
    /\ validator' = validate_deniz_tags(validator)
    /\ pc' = "report"
    /\ UNCHANGED <<analysers, concurrent, raised, exit_code, reporter, coverage>>

\* validate, lines 212-213, and main, line 220
ReportVerdict ==
    /\ pc = "report"
    /\ exit_code' = IF report(validator) THEN 0 ELSE 1
    /\ pc' = "done"
    /\ UNCHANGED <<analysers, concurrent, raised, validator, reporter, coverage>>

NextValidate ==
    \/ LoadSchema \/ LoadYaml \/ ValidateSchema \/ ValidateServerCoverage
    \/ ValidateReferences \/ ValidateDenizTags \/ ReportVerdict

SpecValidate == InitValidate /\ [][NextValidate]_vars

\* d[k] = n in place of d[k] += n
Assign(d, k, n) == (k :> n) @@ d

\* d[k] += n on a defaultdict(int)
Increment(d, k, n) == (k :> (Get(d, k, 0) + n)) @@ d

\* calculate_coverage, lines 56-65
NewCoverage(servers) ==
    [total_servers |-> Len(servers), total_tools |-> 0,
     by_category |-> <<>>,
     by_maturity |-> <<>>, by_auth_model |-> <<>>, deniz_recommended |-> 0,
     complete_documentation |-> 0, details |-> <<>>]

\* calculate_coverage, lines 68-98: the body of the loop for one server
AddServer(c, server) ==
    LET category == Get(server, "category", "uncategorized")
        maturity == Get(server, "maturity", "unknown")
        auth_model == Get(server, "auth_model", "none")
        tool_count == Len(Get(server, "tools", <<>>))
        deniz_recommended == Get(server, "deniz_recommended", FALSE)
        doc_status == Get(server, "doc_status", "draft")
        in_category == Get(c.by_category, category, [servers |-> 0, tools |-> 0])
    IN  [total_servers |-> c.total_servers,
         total_tools |-> c.total_tools + tool_count,
         by_category |->
             (category :> [servers |-> in_category.servers + 1,
                           tools |-> in_category.tools + tool_count])
             @@ c.by_category,
         by_maturity |-> Increment(c.by_maturity, maturity, 1),
         by_auth_model |-> Increment(c.by_auth_model, auth_model, 1),
         deniz_recommended |-> c.deniz_recommended + (IF deniz_recommended THEN 1 ELSE 0),
         complete_documentation |->
             c.complete_documentation + (IF doc_status = "complete" THEN 1 ELSE 0),
         details |-> Append(c.details,
             [id |-> Get(server, "id", "unknown"), name |-> Get(server, "name", "Unknown"),
              category |-> category, tools |-> tool_count, maturity |-> maturity,
              auth_model |-> auth_model, deniz_recommended |-> deniz_recommended,
              doc_status |-> doc_status])]

RECURSIVE CoverageLoop(_, _)
CoverageLoop(c, servers) ==
    IF servers = <<>> THEN c
    ELSE CoverageLoop(AddServer(c, servers[1]), Tail(servers))

calculate_coverage(catalog_data) ==
    LET servers == Get(catalog_data, "servers", <<>>)
    IN  CoverageLoop(NewCoverage(servers), servers)

InitCoverage ==
    /\ AnalysersIdle
    /\ pc = "load_catalog"
    /\ raised = ""
    /\ exit_code = -1
    /\ validator = <<>>
    /\ reporter = [catalog_data |-> EmptyObject]
    /\ coverage = <<>>

\* generate, lines 188-189 with load_catalog; `return False` ends main with 1
LoadCatalog ==
    /\ pc = "load_catalog"
    /\ \E outcome \in LoadOutcomes, data \in Catalogs :
          IF outcome = "loaded"
          THEN /\ reporter' = [reporter EXCEPT !.catalog_data = data]
               /\ IF data # EmptyObject
                  THEN pc' = "calculate_coverage" /\ exit_code' = exit_code
                  ELSE pc' = "done" /\ exit_code' = 1
          ELSE /\ reporter' = reporter
               /\ pc' = "done"
               /\ exit_code' = 1
    /\ UNCHANGED <<analysers, concurrent, raised, validator, coverage>>

\* generate, line 191
CalculateCoverage ==
    /\ pc = "calculate_coverage"
    /\ coverage' = calculate_coverage(reporter.catalog_data)
    /\ pc' = "report"
    /\ UNCHANGED <<analysers, concurrent, raised, exit_code, validator, reporter>>

\* generate, lines 193-201: the report is printed, and saved unless it is
\* JSON; generate returns True whether or not it was saved
GenerateReport ==
    /\ pc = "report"
    /\ exit_code' = 0
    /\ pc' = "done"
    /\ UNCHANGED <<analysers, concurrent, raised, validator, reporter, coverage>>

NextCoverage == LoadCatalog \/ CalculateCoverage \/ GenerateReport

SpecCoverage == InitCoverage /\ [][NextCoverage]_vars

----------------------------------------------------------------------------
(* Properties *)

BackendNames == {"gemini", "codex"}

\* the external call of the latest step ended without a usable object: a
\* timeout, a non-zero exit, output without a brace pair, or a brace-delimited
\* substring that does not parse
Degrading(r) ==
    \/ r.kind \in {"timeout", "nonzero"}
    \/ /\ r.kind = "exit0"
       /\ \/ ~HasJson(r.stdout)
          \/ ~json_loads(JsonStr(r.stdout), r.members_ok, r.payload).ok

\* ... or the call could not be started or errored
Failing(r) == r.kind = "raises" \/ Degrading(r)

\* the record has the seven sections
HasAllSections(record) == Sections \subseteq DOMAIN record

\* C1: the run on https://github.com/acme/widget-mcp with identifier widget
\* and no backend available ends with exit code 0 and exactly one record
\* written, at the default location, whose metadata.server_id is widget and
\* whose seven sections are present, non-empty mappings.
C1_EndToEnd ==
    (/\ pc = "done"
     /\ url = WidgetUrl
     /\ server_name = "widget"
     /\ argOutput = ""
     /\ ~available_agents["gemini"]
     /\ ~available_agents["codex"])
    => /\ exit_code = 0
       /\ \A p \in OutputPaths : (files[p] # files0[p]) <=> (p = DefaultPath("widget"))
       /\ HasAllSections(files[DefaultPath("widget")][1])
       /\ \A sec \in Sections :
             /\ IsMapping(files[DefaultPath("widget")][1][sec])
             /\ DOMAIN files[DefaultPath("widget")][1][sec] # {}
       /\ files[DefaultPath("widget")][1]["metadata"]["server_id"] = "widget"

\* C2: a URL that matches a resolver pattern (owner and project both
\* non-empty) does not make analyze_repository raise the invalid-URL error:
\* the run goes on to the ingestion stage.
C2_MatchedUrlProceeds ==
    (/\ pc \notin {"start", "override", "resolve"}
     /\ parse_github_url(url)[1] # <<>>
     /\ parse_github_url(url)[2] # <<>>)
    => raised # "ValueError"

\* the suffixes of the URL forms of C3: bare, trailing slash, /tree/...,
\* /blob/...
FormSuffixes ==
    {<<>>, <<"/">>}
    \cup {<<"/", k, "/">> \o TailText(t) :
              k \in {"tree", "blob"}, t \in SeqsUpTo(TailSegments, MaxTail)}

\* C3: github.com/owner/project, with a trailing slash, with /tree/... and
\* with /blob/... all resolve to (owner, project).
C3_SameReference ==
    pc = "parsed" =>
        \A sc \in Schemes, o \in Names, p \in Names, sf \in FormSuffixes :
            url = sc \o <<"github.com", "/", o, "/", p>> \o sf
            => owner = <<o>> /\ repo = <<p>>

\* the URL without its scheme
SchemeLess(u) == IF u # <<>> /\ u[1] = "https://" THEN Tail(u) ELSE u

\* the host of the URL: the text up to the first "/"
HostOf(u) ==
    LET b == SchemeLess(u)
    IN  IF Find(b, "/") = -1 THEN b ELSE SubSeq(b, 1, Find(b, "/"))

\* number of non-empty segments after the host
SegmentsAfterHost(u) ==
    LET b == SchemeLess(u)
    IN  Cardinality({i \in 2..Len(b) : b[i] # "/" /\ b[i - 1] = "/"})

\* a host other than github.com, or no project segment
Malformed(u) == HostOf(u) # <<"github.com">> \/ SegmentsAfterHost(u) < 2

\* C4: for a malformed URL the resolver yields no reference and the run fails
\* with the invalid-reference error before any external call or output write.
C4_MalformedRejected ==
    (Malformed(url) /\ pc # "start")
    => /\ owner = <<>>
       /\ repo = <<>>
       /\ raised = "ValueError"
       /\ calls = <<>>
       /\ config = <<>>
       /\ files = files0

\* C5: every failure of the selected backend at invocation or extraction
\* makes the generation step return the fallback record, and none is raised
\* out of the run.
C5_BackendFailureFallsBack ==
    (pc = "finally" /\ result.call \in BackendNames /\ Failing(result))
    => /\ raised = ""
       /\ config_path = "fallback"
       /\ config = <<fallback_config(TRUE).value>>

\* positions of calls that invoke a backend
BackendCalls == {i \in DOMAIN calls : calls[i] \in BackendNames}

\* C6: a run invokes at most one backend, the selected one, at most once; a
\* failed backend is not retried and no other is tried before the fallback.
C6_OneBackendCall ==
    /\ Cardinality(BackendCalls) <= 1
    /\ \A i \in BackendCalls : calls[i] = selected_agent

C6_Witness ==
    /\ pc = "finally"
    /\ result.call = "gemini"
    /\ result.kind = "timeout"
    /\ config_path = "fallback"
    /\ Cardinality(BackendCalls) = 1

\* the reasons of the placeholder summaries
DegradedReasons ==
    {"Analysis failed", "GitIngest call failed", "Analysis timed out",
     "JSON parse failed"}

\* C7: whatever the outcome of the summary call (timeout, non-zero exit, no
\* brace pair, unparsable substring, call failing to start), fetchSummary
\* raises nothing and returns the placeholder named owner/project, with no
\* files, token count 0 and the reason as description.
C7_SummaryNeverAborts ==
    (result.call = "git_summary" /\ Failing(result))
    => /\ raised = ""
       /\ pc = "tree"
       /\ repo_summary.name = owner \o <<"/">> \o repo
       /\ repo_summary.files = <<>>
       /\ repo_summary.token_count = 0
       /\ repo_summary.description \in DegradedReasons

\* C8: on timeout, non-zero exit, missing brace pair or parse failure,
\* fetchTree returns the empty tree and fetchFileContents the empty map,
\* nothing is raised and the run is at its next stage.
C8_TreeAndFilesDegrade ==
    /\ (result.call = "git_tree" /\ Degrading(result))
       => (raised = "" /\ pc = "key_files" /\ repo_tree = EmptyTree)
    /\ (result.call = "git_files" /\ Degrading(result))
       => (raised = "" /\ pc = "context" /\ file_contents = EmptyObject)

C8_Witness ==
    /\ result.call = "git_tree"
    /\ result.kind = "exit0"
    /\ HasJson(result.stdout)
    /\ ~json_loads(JsonStr(result.stdout), result.members_ok, result.payload).ok
    /\ pc = "key_files"
    /\ repo_tree = EmptyTree

\* C9: the record of the fallback path has the seven sections, whatever the
\* earlier stages returned.
C9_FallbackHasAllSections ==
    config_path = "fallback" => HasAllSections(config[1])

\* the summary and tree stages gave no path (no file request was made), the
\* backend timed out, and the fallback record was produced
C9_Witness ==
    /\ pc = "finally"
    /\ calls = <<"git_summary", "git_tree", "codex">>
    /\ result.kind = "timeout"
    /\ config_path = "fallback"
    /\ HasAllSections(config[1])

\* C10: every record written to an output file has the seven sections,
\* whichever path produced it.
C10_WrittenHasAllSections ==
    \A p \in OutputPaths : files[p] # files0[p] => HasAllSections(files[p][1])

\* the metadata keys _fallback_config stamps
StampedKeys == {"analysis_date", "generated_by"}

\* C11: the fallback record equals the Template in every section and key but
\* analysis_date and generated_by of its metadata: nothing else is added,
\* removed or changed, whatever the URL and the server identifier.
C11_FallbackEqualsTemplate ==
    config_path = "fallback" =>
        /\ DOMAIN config[1] = DOMAIN Template
        /\ \A sec \in DOMAIN Template \ {"metadata"} :
              config[1][sec] = Template[sec]
        /\ DOMAIN config[1]["metadata"]
              = DOMAIN Template["metadata"] \cup StampedKeys
        /\ \A k \in DOMAIN Template["metadata"] \ StampedKeys :
              config[1]["metadata"][k] = Template["metadata"][k]

C11_Witness ==
    /\ pc = "finally"
    /\ config_path = "fallback"
    /\ server_name = "other"
    /\ config[1]["metadata"]["generated_by"] = "fallback_generator"
    /\ config[1]["metadata"]["analysis_date"] = Now
    /\ config[1]["metadata"]["server_id"] = Template["metadata"]["server_id"]

\* the paths _identify_key_files is given: the tree's, then the summary's
InputPaths == TreeFiles(repo_tree, repo_summary)

\* the paths of the input that match a priority pattern
MatchingPaths == {p \in Range(InputPaths) : FirstMatch(p) > 0}

\* C12: _identify_key_files returns at most 15 paths and no path twice,
\* also when a path is in the tree and in the summary, or several times in
\* one of them.
C12_BoundedNoDuplicates ==
    /\ Len(key_files) <= 15
    /\ \A i, j \in DOMAIN key_files : i # j => key_files[i] # key_files[j]

\* more than 15 distinct paths match, and a path of the tree is in the
\* summary's list too
C12_Witness ==
    /\ pc = "files"
    /\ Cardinality(MatchingPaths) > 15
    /\ Len(key_files) = 15
    /\ "tree" \in DOMAIN repo_tree
    /\ "files" \in DOMAIN repo_summary
    /\ \E p \in Range(repo_summary["files"]) :
          /\ p \in Range(TreePathsOf(repo_tree["tree"]))
          /\ p \in Range(key_files)

\* first position of the path in the input
FirstPosition(p) ==
    CHOOSE i \in DOMAIN InputPaths :
        InputPaths[i] = p /\ \A k \in 1..(i - 1) : InputPaths[k] # p

\* p has priority over q: its first matching pattern is earlier in the
\* list, or it is the same and p is earlier in the input
HasPriority(p, q) ==
    \/ FirstMatch(p) < FirstMatch(q)
    \/ FirstMatch(p) = FirstMatch(q) /\ FirstPosition(p) < FirstPosition(q)

\* C13: the output is in priority-list order (a path whose first matching
\* pattern is earlier comes first, paths of one pattern keep their
\* tree-then-summary order), and what the truncation drops has lower priority
\* than everything kept.
C13_PriorityOrder ==
    pc = "files" =>
        /\ Range(key_files) \subseteq MatchingPaths
        /\ \A i, j \in DOMAIN key_files :
              i < j => HasPriority(key_files[i], key_files[j])
        /\ \A p \in MatchingPaths \ Range(key_files) :
              /\ Len(key_files) = 15
              /\ \A i \in DOMAIN key_files : HasPriority(key_files[i], p)

\* a src/tools/ path is listed before package.json and README.md paths and
\* returned after them, and a matching path is dropped by the truncation
C13_Witness ==
    /\ pc = "files"
    /\ MatchingPaths \ Range(key_files) # {}
    /\ \E i, j, k \in DOMAIN key_files :
          /\ key_files[i] = PkgJsonInX
          /\ key_files[j] = Readme
          /\ key_files[k] = ToolA
          /\ i < k
          /\ j < k
          /\ FirstPosition(ToolA) < FirstPosition(PkgJsonInX)
          /\ FirstPosition(ToolA) < FirstPosition(Readme)

\* the preference order of the backends
PreferenceOrder == <<"gemini", "codex", "claude">>

\* the first backend of the preference order that the mapping has available
FirstAvailable(available) ==
    PreferenceOrder[CHOOSE n \in DOMAIN PreferenceOrder :
        /\ available[PreferenceOrder[n]]
        /\ \A k \in 1..(n - 1) : ~available[PreferenceOrder[k]]]

\* C14: the backend selected at construction is the first available one in
\* the order gemini, codex, claude: gemini when both optional backends are
\* available, claude when neither is; the selection is never empty.
C14_SelectionByPreference ==
    pc = "override" =>
        /\ selected_agent \in Agents
        /\ selected_agent = FirstAvailable(available_agents)
        /\ (available_agents["gemini"] /\ available_agents["codex"])
              => selected_agent = "gemini"
        /\ (~available_agents["gemini"] /\ ~available_agents["codex"])
              => selected_agent = "claude"

C14_Witness ==
    /\ pc = "override"
    /\ available_agents["gemini"]
    /\ available_agents["codex"]
    /\ selected_agent = "gemini"

\* C15: --agent replaces the default selection only if that backend is
\* available, otherwise the default selection stands; the backend the run
\* uses is one whose availability is true.
C15_OverrideOnlyIfAvailable ==
    pc \notin {"start", "override"} =>
        /\ selected_agent =
              IF argAgent # "" /\ available_agents[argAgent]
              THEN argAgent
              ELSE FirstAvailable(available_agents)
        /\ available_agents[selected_agent]

C15_Witness ==
    /\ pc = "resolve"
    /\ argAgent = "codex"
    /\ ~available_agents["codex"]
    /\ available_agents["gemini"]
    /\ selected_agent = "gemini"

\* C16: a probe that returns non-zero or raises marks its backend as not
\* available and raises nothing out of the detection, which returns a
\* complete mapping with the in-process backend available.
C16_ProbeNeverAborts ==
    pc = "override" =>
        /\ raised = ""
        /\ DOMAIN available_agents = Agents
        /\ available_agents["claude"]
        /\ result.gemini # "zero" => ~available_agents["gemini"]
        /\ result.codex # "zero" => ~available_agents["codex"]

C16_Witness ==
    /\ pc = "override"
    /\ result.gemini = "raises"
    /\ result.codex = "nonzero"
    /\ available_agents = [a \in Agents |-> a = "claude"]
    /\ selected_agent = "claude"

\* positions of the first "{" and of the last "}" of a text, 0 when absent
FirstOpen(t) ==
    IF \E i \in DOMAIN t : t[i] = "{"
    THEN CHOOSE i \in DOMAIN t : t[i] = "{" /\ \A k \in 1..(i - 1) : t[k] # "{"
    ELSE 0

LastClose(t) ==
    IF \E j \in DOMAIN t : t[j] = "}"
    THEN CHOOSE j \in DOMAIN t : t[j] = "}" /\ \A k \in (j + 1)..Len(t) : t[k] # "}"
    ELSE 0

\* what the substring from the first "{" to the last "}" parses to
Enclosed(r) ==
    json_loads(SubSeq(r.stdout, FirstOpen(r.stdout), LastClose(r.stdout)),
               r.members_ok, r.payload)

\* both braces exist, the first "{" precedes the last "}", and the substring
\* between them, braces included, parses
Extractable(r) ==
    /\ FirstOpen(r.stdout) > 0
    /\ LastClose(r.stdout) > 0
    /\ FirstOpen(r.stdout) < LastClose(r.stdout)
    /\ Enclosed(r).ok

\* C17: the output of a call that exited 0 yields the object parsed from the
\* substring between its first "{" and its last "}" exactly when both exist,
\* the "{" comes first and the substring parses; otherwise (no "{", no "}",
\* the only "}" before the first "{", or no parse) the extraction fails: the
\* backend step returns the fallback record, the summary step its placeholder.
C17_Extraction ==
    /\ (pc = "finally" /\ result.call \in BackendNames /\ result.kind = "exit0")
       => IF Extractable(result)
          THEN config_path = "enriched" /\ config = <<Enclosed(result).value>>
          ELSE config_path = "fallback"
    /\ (pc = "tree" /\ result.call = "git_summary" /\ result.kind = "exit0")
       => IF Extractable(result)
          THEN repo_summary = Enclosed(result).value
          ELSE /\ "description" \in DOMAIN repo_summary
               /\ repo_summary.description \in DegradedReasons

\* the only "}" of the backend's output precedes its first "{"
C17_Witness ==
    /\ pc = "finally"
    /\ result.call = "gemini"
    /\ result.kind = "exit0"
    /\ result.stdout = <<"}", "{">>
    /\ config_path = "fallback"

\* analyze_repository has been entered and has not yet reached its finally
InAnalysis ==
    pc \in {"summary", "tree", "key_files", "files", "context", "generate",
            "finally"}

\* analyze_repository has returned or raised
AfterAnalysis == pc \in {"write", "report", "main_except", "done"}

\* C18: once analyze_repository has returned or raised (invalid URL,
\* unreadable template, any other error) the scratch directory no longer
\* exists, and the stage that writes into it runs while it exists.
C18_ScratchReleased ==
    /\ AfterAnalysis => temp_dir = "removed"
    /\ InAnalysis => temp_dir = "exists"
    /\ UsesScratch => temp_dir = "exists"

\* the template could not be read, the run ended, the directory is gone
C18_Witness ==
    /\ pc = "done"
    /\ raised = "FileNotFoundError"
    /\ calls # <<>>
    /\ temp_dir = "removed"

\* the run has written its record to its output file
RecordWritten ==
    /\ config # <<>>
    /\ files[OutputPath(argOutput, server_name)] = config
    /\ files # files0

\* C19: the process ends with exit code 0 exactly when the run produced and
\* wrote a record, and with 1 on every unrecovered error; no error path ends
\* with 0.
C19_ExitCode ==
    pc = "done" =>
        /\ exit_code \in {0, 1}
        /\ exit_code = 0 <=> RecordWritten
        /\ raised # "" => exit_code = 1

\* C20: a run that aborts with an error raised before the write stage
\* (invalid reference, unreadable template: analyze_repository returned no
\* record) leaves every output file as it was before the run.
C20_NoOutputOnFatal ==
    (raised # "" /\ config = <<>>) => files = files0

\* the template could not be read, the run ended with exit code 1 and the
\* record of an earlier run is still in the output file
C20_Witness ==
    /\ pc = "done"
    /\ exit_code = 1
    /\ raised = "FileNotFoundError"
    /\ files0[OutputPath(argOutput, server_name)] = <<OldRecord>>
    /\ files = files0

\* both processes have closed the output file
BothClosed == writers # <<>> /\ \A w \in Writers : writers[w].pc = "closed"

\* the process whose write to the file was the last one
LaterWriter ==
    CHOOSE w \in Writers : \A v \in Writers : writers[v].written_at <= writers[w].written_at

\* C21: two runs with the same server identifier may have the output file
\* open at once, and when both have finished the file holds the complete
\* record of the later writer, not a mixture of the two records.
C21_LastWriterWins ==
    BothClosed => disk = writers[LaterWriter].text

\* the precedence of _determine_priority_deployment
DeploymentOrder == <<"smithery", "npm", "local", "docker">>

\* the first method of the order that is marked available, else manual
FirstDeployment(info) ==
    IF \E n \in DOMAIN DeploymentOrder : info[DeploymentOrder[n]]
    THEN DeploymentOrder[CHOOSE n \in DOMAIN DeploymentOrder :
             /\ info[DeploymentOrder[n]]
             /\ \A k \in 1..(n - 1) : ~info[DeploymentOrder[k]]]
    ELSE "manual"

\* the record of the server analyser has been generated
ServerGenerated == config_path = "generated" /\ config # <<>>

\* C22 as stated: priority_deployment is npm when the package indicator is
\* detected, else docker when a docker indicator is, and manual when no
\* signal is detected.
C22_NpmThenDocker ==
    ServerGenerated =>
        config[1]["metadata"]["priority_deployment"] =
            IF "package.json" \in DOMAIN file_contents THEN "npm"
            ELSE IF {"Dockerfile", "docker-compose.yml"} \cap DOMAIN file_contents # {}
                 THEN "docker"
            ELSE config[1]["metadata"]["priority_deployment"]

\* C22, amended: priority_deployment is the first available method in the
\* order smithery, npm, local, docker, and manual when none is; smithery is
\* marked available for every repository, so the field is smithery whatever
\* files were found.
C22_SmitheryFirst ==
    ServerGenerated =>
        /\ config[1]["metadata"]["priority_deployment"]
              = FirstDeployment(analyze_deployment_options(file_contents))
        /\ config[1]["metadata"]["priority_deployment"] = "smithery"

\* package.json and Dockerfile were found and the field is smithery
C22_Witness ==
    /\ ServerGenerated
    /\ {"package.json", "Dockerfile"} \subseteq DOMAIN file_contents
    /\ config[1]["metadata"]["priority_deployment"] = "smithery"

\* the tool list of the generated record
ToolList == config[1]["metadata"]["tools"]

\* the source files, by position in source_files, whose text matches a tool
\* pattern that captures the name
FilesYielding(name) ==
    {f \in DOMAIN SourceFiles :
        \E piece \in Range(ContentOf(file_contents, SourceFiles[f])) :
            piece.pattern # 0 /\ piece.name = name}

\* C29: the tool list never holds two entries with the same name, and the
\* description of an entry names the first source file that yields its name.
C29_UniqueToolNames ==
    ServerGenerated =>
        /\ \A i, j \in DOMAIN ToolList :
               ToolList[i].name = ToolList[j].name => i = j
        /\ \A i \in DOMAIN ToolList :
               \E g \in FilesYielding(ToolList[i].name) :
                   /\ \A h \in FilesYielding(ToolList[i].name) : g <= h
                   /\ ToolList[i].description = SourceFiles[g]

\* the name a is matched in both source files and has one entry, described
\* by the first file
C29_Witness ==
    /\ ServerGenerated
    /\ FilesYielding("a") = {1, 6}
    /\ Cardinality({i \in DOMAIN ToolList : ToolList[i].name = "a"}) = 1
    /\ \E i \in DOMAIN ToolList :
           ToolList[i].name = "a" /\ ToolList[i].description = "src/index.ts"

\* the steps of one run up to the write, in the order of the code
StageOrder ==
    <<"resolve", "summary", "tree", "key_files", "files", "context",
      "generate", "finally", "write">>

\* the stage that issues an external call
StageOf(call) ==
    CASE call = "git_summary" -> "summary"
      [] call = "git_tree" -> "tree"
      [] call = "git_files" -> "files"
      [] call \in {"which_gemini", "which_codex"} -> "start"
      [] OTHER -> "generate"

\* C23: the stages run in the order URL resolution, summary, tree, key-file
\* selection, contents, generation, write: a stage hands over to the next one
\* or to the exception path only, every external call is issued by the stage
\* that is running and has ended when the stage ends, and the output file
\* changes only in the write stage, to the record that generation produced.
C23_StagesInOrder ==
    [][/\ (pc \in Range(StageOrder) /\ pc # "write") =>
             \/ /\ raised' = ""
                /\ \E n \in 1..(Len(StageOrder) - 1) :
                       StageOrder[n] = pc /\ StageOrder[n + 1] = pc'
             \/ /\ raised' # ""
                /\ pc' = IF pc = "finally" THEN "main_except" ELSE "finally"
       /\ calls' # calls =>
             /\ Len(calls') > Len(calls)
             /\ SubSeq(calls', 1, Len(calls)) = calls
             /\ \A n \in (Len(calls) + 1)..Len(calls') : StageOf(calls'[n]) = pc
       /\ files' # files =>
             /\ pc = "write"
             /\ config # <<>>
             /\ config_path # ""
             /\ files' = [files EXCEPT ![OutputPath(argOutput, server_name)] = config]
      ]_vars

\* the record has been written after the three fetches and a backend call
C23_Witness ==
    /\ pc = "report"
    /\ Len(calls) = 4
    /\ calls[4] \in BackendNames
    /\ SubSeq(calls, 1, 3) = <<"git_summary", "git_tree", "git_files">>
    /\ files[OutputPath(argOutput, server_name)] = config
    /\ config # <<>>

\* C24: producing the fallback record raises only when the template cannot
\* be read: when a backend was called and gave no usable object, the template
\* had been read and the fallback record is returned; the generation stage
\* raises nothing but the backend's own error and the template's read error,
\* and the latter before any backend is called.
C24_FallbackNeverFails ==
    [][pc = "generate" =>
          /\ (result'.call \in BackendNames /\ Degrading(result')) =>
                 /\ raised' = ""
                 /\ config_path' = "fallback"
                 /\ config' # <<>>
          /\ raised' \notin {"", "OSError"} =>
                 /\ raised' = "FileNotFoundError"
                 /\ result' = NoCall
                 /\ calls' = calls
      ]_vars

\* a backend call ended without a usable object and the fallback record was
\* produced
C24_Witness ==
    /\ pc = "finally"
    /\ raised = ""
    /\ result.call \in BackendNames
    /\ Degrading(result)
    /\ config_path = "fallback"
    /\ config[1]["metadata"]["generated_by"] = "fallback_generator"

\* a directory pattern ends with '/'; the other patterns name a file
IsDirectoryPattern(pattern) == pattern[Len(pattern)] \in DirAtoms

\* the matching rule as stated: containment for a directory pattern, suffix
\* for a file pattern
MatchesAsStated(pattern, path) ==
    IF IsDirectoryPattern(pattern) THEN Contains(path, pattern)
    ELSE EndsWith(path, pattern)

\* C25: every path _identify_key_files returns is a path of the tree or of
\* the summary, and matches a priority pattern: a directory pattern by
\* containment, a file pattern (package.json, src/index.ts) by suffix.
C25_ReturnedPathsMatch ==
    pc = "files" =>
        \A p \in Range(key_files) :
            /\ p \in Range(InputPaths)
            /\ \E n \in DOMAIN PriorityPatterns :
                   MatchesAsStated(PriorityPatterns[n], p)

\* C26: the file content map has only requested paths as keys, of which there
\* are at most 15; when the response was parsed its entries are exactly the
\* requested paths that the parsed object has, with their texts; when no path
\* is requested no call is made and the map is empty.
C26_ContentsOfRequested ==
    pc = "context" =>
        /\ DOMAIN file_contents \subseteq Range(key_files)
        /\ Len(key_files) <= 15
        /\ key_files = <<>> =>
               /\ file_contents = EmptyObject
               /\ result = NoCall
               /\ "git_files" \notin Range(calls)
        /\ key_files # <<>> =>
               /\ result.call = "git_files"
               /\ calls[Len(calls)] = "git_files"
        /\ (result.call = "git_files" /\ ~Degrading(result)) =>
               LET files_data == json_loads(JsonStr(result.stdout),
                                            result.members_ok, result.payload).value
               IN  /\ DOMAIN file_contents = Range(key_files) \cap DOMAIN files_data
                   /\ \A p \in DOMAIN file_contents : file_contents[p] = files_data[p]

\* the response has a path that was not requested and lacks one that was:
\* the map has neither
C26_Witness ==
    /\ pc = "context"
    /\ result.call = "git_files"
    /\ ~Degrading(result)
    /\ Notes \in DOMAIN result.payload
    /\ Notes \notin Range(key_files)
    /\ ToolA \in Range(key_files)
    /\ ToolA \notin DOMAIN result.payload
    /\ DOMAIN file_contents = {PkgJsonInX, Readme}

\* the messages of the three failures that end validate early
LoadFailures ==
    {<<"Schema file not found">>, <<"JSON schema syntax error">>,
     <<"YAML file not found">>, <<"YAML syntax error">>, <<"YAML file is empty">>,
     <<"Schema validation error">>}

RECURSIVE SumOf(_)
SumOf(counts) ==
    IF DOMAIN counts = {} THEN 0
    ELSE LET k == CHOOSE key \in DOMAIN counts : TRUE
         IN  counts[k] + SumOf([key \in DOMAIN counts \ {k} |-> counts[key]])

\* C28: in the coverage report total_tools is the sum of the categories'
\* tool counts and of the servers' tool counts in details; total_servers is
\* the length of details and the sum of the categories' server counts, of
\* by_maturity and of by_auth_model; deniz_recommended and
\* complete_documentation do not exceed total_servers.
C28_AggregatesConsistent ==
    coverage # <<>> =>
        /\ coverage.total_tools
              = SumOf([k \in DOMAIN coverage.by_category |-> coverage.by_category[k].tools])
        /\ coverage.total_tools
              = SumOf([n \in DOMAIN coverage.details |-> coverage.details[n].tools])
        /\ coverage.total_servers = Len(coverage.details)
        /\ coverage.total_servers
              = SumOf([k \in DOMAIN coverage.by_category |-> coverage.by_category[k].servers])
        /\ coverage.total_servers = SumOf(coverage.by_maturity)
        /\ coverage.total_servers = SumOf(coverage.by_auth_model)
        /\ coverage.deniz_recommended <= coverage.total_servers
        /\ coverage.complete_documentation <= coverage.total_servers

\* two servers of one category and one maturity, one of them with defaults
\* for the keys it lacks
C28_Witness ==
    /\ coverage # <<>>
    /\ pc = "done"
    /\ coverage.total_servers = 2
    /\ coverage.total_tools = 3
    /\ DOMAIN coverage.by_category = {"db"}
    /\ coverage.by_category["db"] = [servers |-> 2, tools |-> 3]
    /\ DOMAIN coverage.by_auth_model = {"api_key", "none"}
    /\ coverage.deniz_recommended = 1

====
